---------------------------- MODULE Spec2Model ----------------------------
(***************************************************************************)
(* Blinkit automation: the Drive -> Sheets pipelines of src/app.py (PO,    *)
(* class InstamartAutomation) and src/grn.py (GRN, class GRNAutomation).   *)
(*                                                                         *)
(* Text is modelled as a sequence of one-character strings, so that        *)
(* strip(), split(), replace() and the regular expressions of the source   *)
(* are computed and not assumed.  A spreadsheet cell read by pandas is a   *)
(* tagged value: NaN, a str or a number.                                   *)
(***************************************************************************)
EXTENDS Integers, Sequences, FiniteSets, TLC

(***************************************************************************)
(* Bounds of the model.                                                    *)
(***************************************************************************)
MaxRuns  == 2   \* runs of process_drive_to_sheet_workflow in one behaviour
MaxDrive == 2   \* files listed in the Drive folder
MaxRows  == 3   \* rows of a generated spreadsheet
MaxDay   == 1   \* days the clock may show: 0..MaxDay

(***************************************************************************)
(* Text helpers (Python str methods and the re patterns the source uses).  *)
(***************************************************************************)
DigitChars == <<"0", "1", "2", "3", "4", "5", "6", "7", "8", "9">>
UpperChars == <<"A", "B", "C", "D", "E", "F", "G", "H", "I", "J", "K", "L", "M",
                "N", "O", "P", "Q", "R", "S", "T", "U", "V", "W", "X", "Y", "Z">>
LowerChars == <<"a", "b", "c", "d", "e", "f", "g", "h", "i", "j", "k", "l", "m",
                "n", "o", "p", "q", "r", "s", "t", "u", "v", "w", "x", "y", "z">>

IsDigit(c) == \E i \in 1..10 : DigitChars[i] = c
DigitVal(c) == (CHOOSE i \in 1..10 : DigitChars[i] = c) - 1
IsSpace(c) == c = " "

\* str.lower() of one character
LowerChar(c) ==
    IF \E i \in 1..26 : UpperChars[i] = c
    THEN LowerChars[CHOOSE i \in 1..26 : UpperChars[i] = c]
    ELSE c
Lower(t) == [i \in 1..Len(t) |-> LowerChar(t[i])]

AllDigits(t) == \A i \in 1..Len(t) : IsDigit(t[i])

\* p occurs in t at position i
OccursAt(p, t, i) == i >= 1 /\ i + Len(p) - 1 <= Len(t) /\ SubSeq(t, i, i + Len(p) - 1) = p
\* Python: p in t
Contains(p, t) == \E i \in 1..(Len(t) + 1) : OccursAt(p, t, i)
EndsWith(t, p) == Len(p) <= Len(t) /\ SubSeq(t, Len(t) - Len(p) + 1, Len(t)) = p

\* Python: t.replace(p, '') for a non-empty p
RECURSIVE RemoveAll(_, _)
RemoveAll(t, p) ==
    IF Len(t) < Len(p) THEN t
    ELSE IF SubSeq(t, 1, Len(p)) = p
         THEN RemoveAll(SubSeq(t, Len(p) + 1, Len(t)), p)
         ELSE <<t[1]>> \o RemoveAll(Tail(t), p)

\* Python: t.split(c)
RECURSIVE Split(_, _)
Split(t, c) ==
    IF \A i \in 1..Len(t) : t[i] # c THEN <<t>>
    ELSE LET i == CHOOSE j \in 1..Len(t) :
                      t[j] = c /\ \A k \in 1..(j - 1) : t[k] # c
         IN  <<SubSeq(t, 1, i - 1)>> \o Split(SubSeq(t, i + 1, Len(t)), c)

\* Python: t.strip()
RECURSIVE LStrip(_)
LStrip(t) == IF t # <<>> /\ IsSpace(t[1]) THEN LStrip(Tail(t)) ELSE t
RECURSIVE RStrip(_)
RStrip(t) == IF t # <<>> /\ IsSpace(t[Len(t)]) THEN RStrip(SubSeq(t, 1, Len(t) - 1)) ELSE t
Strip(t) == RStrip(LStrip(t))

\* Python: str(n) for a natural number n
RECURSIVE NumToText(_)
NumToText(n) ==
    IF n < 10 THEN <<DigitChars[n + 1]>>
    ELSE NumToText(n \div 10) \o <<DigitChars[(n % 10) + 1]>>

\* value of a non-empty string of decimal digits
RECURSIVE TextToNum(_)
TextToNum(t) ==
    IF Len(t) = 1 THEN DigitVal(t[1])
    ELSE 10 * TextToNum(SubSeq(t, 1, Len(t) - 1)) + DigitVal(t[Len(t)])

\* two decimal digits of n < 100
TwoDigits(n) == <<DigitChars[(n \div 10) + 1], DigitChars[(n % 10) + 1]>>

(***************************************************************************)
(* Text constants of the source.                                           *)
(***************************************************************************)
T_source_file == <<"s", "o", "u", "r", "c", "e", "_", "f", "i", "l", "e">>
T_xlsx == <<".", "x", "l", "s", "x">>
T_xls  == <<".", "x", "l", "s">>
T_nan  == <<"n", "a", "n">>
T_NaN  == <<"N", "a", "N">>
T_NAN  == <<"N", "A", "N">>
T_None == <<"N", "o", "n", "e">>
T_GRNReport == <<"C", "o", "n", "s", "o", "l", "i", "d", "a", "t", "e", "d", "-",
                 "G", "R", "N", "-", "R", "e", "p", "o", "r", "t">>

(***************************************************************************)
(* CONFIG of the two scripts.                                              *)
(***************************************************************************)
Pipelines == {"PO", "GRN"}

\* CONFIG['excel_mapping'] of app.py: logical field -> physical header of the workbook
excel_mapping_po ==
    ( "product_number" :> "Item Code" @@
    "product_name" :> "Product Description" @@
    "quantity_ordered" :> "Quantity" @@
    "item_count" :> "Total Items" @@
    "PO Total Quantity" :> "Total Quantity" @@
    "PO Total Amount" :> "Total Amount" @@
    "price_per_unit" :> "Basic Cost Price" @@
    "mrp" :> "MRP" @@
    "base_price" :> "Landing Rate" @@
    "amount_per_line_amount" :> "Total Amount" @@
    "total_items_in_po" :> "Total Items in PO" @@
    "total_quantity_in_po" :> "Total Quantity in PO" @@
    "total_amount_of_po" :> "Total Amount of PO" )

\* CONFIG['excel_mapping'] of grn.py
excel_mapping_grn ==
    ( "item_code" :> "Item Code" @@
    "po_number" :> "po_number" @@
    "product_upc" :> "Product UPC" @@
    "product_description" :> "Product Description" @@
    "mrp" :> "MRP" @@
    "tax_amount" :> "Tax Amount" @@
    "landing_rate_po" :> "Landing Rate - PO" @@
    "landing_rate_grn" :> "Landing Rate - GRN" @@
    "quantity_po" :> "Quantity - PO" @@
    "quantity_grn" :> "Quantity - GRN" @@
    "fill_rate" :> "Fill rate (%)" @@
    "total_grn_amount" :> "Total GRN Amount" @@
    "gmv_loss" :> "GMV Loss" )

excel_mapping(p) == IF p = "PO" THEN excel_mapping_po ELSE excel_mapping_grn

\* list(CONFIG['output_columns'].keys()) of app.py: the output schema, in order
output_columns_po ==
    << "po_number", "po_date", "product_number", "product_name",
    "quantity_ordered", "price_per_unit", "mrp", "base_price",
    "amount_per_line_amount", "total_items_in_po",
    "total_quantity_in_po", "total_amount_of_po", "source_file" >>

\* list(CONFIG['output_columns'].keys()) of grn.py
output_columns_grn ==
    << "grn_number", "received_date", "item_code", "product_upc",
    "product_description", "mrp", "tax_amount", "landing_rate_po",
    "landing_rate_grn", "quantity_po", "quantity_grn", "fill_rate",
    "total_grn_amount", "gmv_loss", "source_file" >>

output_columns(p) == IF p = "PO" THEN output_columns_po ELSE output_columns_grn

\* [CONFIG['output_columns'][col] for col in output_columns] of app.py
display_headers_po ==
    << <<"P", "O", " ", "N", "u", "m", "b", "e", "r">>,
    <<"P", "O", " ", "D", "a", "t", "e">>,
    <<"P", "r", "o", "d", "u", "c", "t", " ", "N", "u", "m", "b", "e", "r">>,
    <<"P", "r", "o", "d", "u", "c", "t", " ", "N", "a", "m", "e">>,
    <<"Q", "t", "y">>,
    <<"p", "r", "i", "c", "e", "_", "p", "e", "r", "_", "u", "n", "i", "t">>,
    <<"M", "R", "P">>,
    <<"B", "a", "s", "e", " ", "P", "r", "i", "c", "e">>,
    <<"T", "o", "t", "a", "l", " ", "L", "i", "n", "e", " ", "A", "m", "o", "u", "n", "t">>,
    <<"T", "o", "t", "a", "l", " ", "I", "t", "e", "m", "s", " ", "i", "n", " ", "P", "O">>,
    <<"T", "o", "t", "a", "l", " ", "Q", "u", "a", "n", "t", "i", "t", "y", " ", "i", "n", " ", "P", "O">>,
    <<"T", "o", "t", "a", "l", " ", "A", "m", "o", "u", "n", "t", " ", "o", "f", " ", "P", "O">>,
    <<" ", " ", " ", " ">> >>

\* [CONFIG['output_columns'][col] for col in output_columns] of grn.py
display_headers_grn ==
    << <<"G", "R", "N", " ", "N", "u", "m", "b", "e", "r">>,
    <<"R", "e", "c", "e", "i", "v", "e", "d", " ", "D", "a", "t", "e">>,
    <<"I", "t", "e", "m", " ", "C", "o", "d", "e">>,
    <<"P", "r", "o", "d", "u", "c", "t", " ", "U", "P", "C">>,
    <<"P", "r", "o", "d", "u", "c", "t", " ", "D", "e", "s", "c", "r", "i", "p", "t", "i", "o", "n">>,
    <<"M", "R", "P">>,
    <<"T", "a", "x", " ", "A", "m", "o", "u", "n", "t">>,
    <<"L", "a", "n", "d", "i", "n", "g", " ", "R", "a", "t", "e", " ", "-", " ", "P", "O">>,
    <<"L", "a", "n", "d", "i", "n", "g", " ", "R", "a", "t", "e", " ", "-", " ", "G", "R", "N">>,
    <<"Q", "t", "y", " ", "-", " ", "P", "O">>,
    <<"Q", "t", "y", " ", "-", " ", "G", "R", "N">>,
    <<"F", "i", "l", "l", " ", "R", "a", "t", "e", " ", "(", "%", ")">>,
    <<"T", "o", "t", "a", "l", " ", "G", "R", "N", " ", "A", "m", "o", "u", "n", "t">>,
    <<"G", "M", "V", " ", "L", "o", "s", "s">>,
    <<"s", "o", "u", "r", "c", "e", "_", "f", "i", "l", "e">> >>

display_headers(p) == IF p = "PO" THEN display_headers_po ELSE display_headers_grn

\* required_fields of the transformation
required_fields(p) ==
    IF p = "PO" THEN << "product_number", "product_name" >>
    ELSE << "item_code", "product_description", "po_number" >>

\* dict.get(k, d)
MapGet(m, k, d) == IF k \in DOMAIN m THEN m[k] ELSE d

(***************************************************************************)
(* Cells as pandas hands them to the code.                                 *)
(***************************************************************************)
NaN == [k |-> "nan", s |-> <<>>, n |-> 0]
Str(t) == [k |-> "str", s |-> t, n |-> 0]
Num(x) == [k |-> "num", s |-> <<>>, n |-> x]
Flt(x) == [k |-> "flt", s |-> <<>>, n |-> x]

\* pd.isna(v)
IsNa(v) == v.k = "nan"
\* str(v)
PyStr(v) ==
    CASE v.k = "nan" -> T_nan
      [] v.k = "str" -> v.s
      [] v.k = "num" -> NumToText(v.n)
      [] v.k = "flt" -> NumToText(v.n) \o <<".", "0">>
\* a conversion that takes numeric cells only
ToNumeric_strict(v) == IF v.k \in {"num", "flt"} THEN v ELSE NaN

\* pd.to_numeric(v, errors='coerce'): a number, or NaN for what does not parse
\* (text: strings of decimal digits parse, text with a letter or a comma does not)
ToNumeric(v) ==
    CASE v.k = "nan" -> NaN
      [] v.k \in {"num", "flt"} -> v
      [] v.k = "str" -> IF v.s # <<>> /\ AllDigits(v.s) THEN Num(TextToNum(v.s)) ELSE NaN

\* the significand of the modelled floats, in bits
MantBits == 3

\* the power of two s, at least s0, with n < 2^MantBits * s
RECURSIVE FScale(_, _)
FScale(n, s0) == IF n < (2 ^ MantBits) * s0 THEN s0 ELSE FScale(n, 2 * s0)

\* the float nearest to the whole number n, ties to the even significand
FRound(n) ==
    LET s == FScale(n, 1)
        q == n \div s
        r == n % s
    IN  IF 2 * r < s THEN q * s
        ELSE IF 2 * r > s THEN (q + 1) * s
        ELSE (IF q % 2 = 0 THEN q ELSE q + 1) * s

\* a + v of Python: exact on two ints, a float sum as soon as one is a float
AddNum(a, v) ==
    IF a.k = "num" /\ v.k = "num" THEN Num(a.n + v.n)
    ELSE Flt(FRound(FRound(a.n) + FRound(v.n)))

\* row.get(col, default) on a row of the data frame
RowGet(row, col, default) == IF col \in DOMAIN row THEN row[col] ELSE default

\* a log line: its tag, its level and the headers it lists
LogEntry(tag, level, cols) == [tag |-> tag, level |-> level, cols |-> cols]

\* datetime.now().strftime('%Y-%m-%d') on day d of the model's clock
TodayText(d) == <<"2", "0", "2", "6", "-", "1", "1", "-">> \o TwoDigits(2 + d)

(***************************************************************************)
(* Filename metadata extractors.                                           *)
(***************************************************************************)
\* YYYYMMDD -> YYYY-MM-DD
DashDate(d8) == SubSeq(d8, 1, 4) \o <<"-">> \o SubSeq(d8, 5, 6) \o <<"-">> \o SubSeq(d8, 7, 8)

\* an extractor that wants exactly identifier, date and time
extract_po_three_parts(filename) ==
    LET parts == Split(RemoveAll(RemoveAll(filename, T_xlsx), T_xls), "_")
    IN  IF Len(parts) = 3 /\ Len(parts[2]) = 8
        THEN [po_number |-> parts[1], po_date |-> DashDate(parts[2]),
              diag |-> <<LogEntry("FILENAME", "INFO", <<>>)>>]
        ELSE [po_number |-> <<>>, po_date |-> <<>>,
              diag |-> <<LogEntry("WARNING_filename", "INFO", <<>>)>>]

\* InstamartAutomation.extract_po_from_filename
extract_po_from_filename(filename) ==
    LET name_without_ext == RemoveAll(RemoveAll(filename, T_xlsx), T_xls)
        parts == Split(name_without_ext, "_")
    IN  IF Len(parts) >= 2 /\ Len(parts[2]) = 8
        THEN [po_number |-> parts[1], po_date |-> DashDate(parts[2]),
              diag |-> <<LogEntry("FILENAME", "INFO", <<>>)>>]
        ELSE [po_number |-> <<>>, po_date |-> <<>>,
              diag |-> <<LogEntry("WARNING_filename", "INFO", <<>>)>>]

\* re.sub(r'\.(xlsx?|xls)$', '', filename, flags=re.IGNORECASE)
StripExcelExt(filename) ==
    IF EndsWith(Lower(filename), T_xlsx) THEN SubSeq(filename, 1, Len(filename) - 5)
    ELSE IF EndsWith(Lower(filename), T_xls) THEN SubSeq(filename, 1, Len(filename) - 4)
    ELSE filename

\* re.search(r'_(\d{4})(\d{2})(\d{2})_\d{6}$', t) matches
HasStampSuffix(t) ==
    /\ Len(t) >= 16
    /\ t[Len(t) - 15] = "_"
    /\ AllDigits(SubSeq(t, Len(t) - 14, Len(t) - 7))
    /\ t[Len(t) - 6] = "_"
    /\ AllDigits(SubSeq(t, Len(t) - 5, Len(t)))

\* positions where re.search(r'(\d{4})(\d{2})(\d{2})', t) can match
DigitRuns(t) == {i \in 1..Len(t) : i + 7 <= Len(t) /\ AllDigits(SubSeq(t, i, i + 7))}

\* an extractor that always answers the day of the call
extract_date_today(filename, d) ==
    [date |-> TodayText(d), diag |-> <<LogEntry("WARNING_filename", "INFO", <<>>)>>]

\* an extractor that knows no timestamp suffix: the first 8 digits, or the day
extract_date_first_run(filename, d) ==
    LET name_no_ext == StripExcelExt(filename)
    IN  IF DigitRuns(name_no_ext) # {}
        THEN LET i == CHOOSE j \in DigitRuns(name_no_ext) :
                          \A k \in DigitRuns(name_no_ext) : j <= k
             IN  [date |-> DashDate(SubSeq(name_no_ext, i, i + 7)), diag |-> <<>>]
        ELSE [date |-> TodayText(d),
              diag |-> <<LogEntry("WARNING_filename", "INFO", <<>>)>>]

\* GRNAutomation.extract_date_from_filename, called on day d
extract_date_from_filename(filename, d) ==
    LET name_no_ext == StripExcelExt(filename)
    IN  IF HasStampSuffix(name_no_ext)
        THEN [date |-> DashDate(SubSeq(name_no_ext, Len(name_no_ext) - 14, Len(name_no_ext) - 7)),
              diag |-> <<>>]
        ELSE IF DigitRuns(name_no_ext) # {}
        THEN LET i == CHOOSE j \in DigitRuns(name_no_ext) :
                          \A k \in DigitRuns(name_no_ext) : j <= k
             IN  [date |-> DashDate(SubSeq(name_no_ext, i, i + 7)), diag |-> <<>>]
        ELSE [date |-> TodayText(d),
              diag |-> <<LogEntry("WARNING_filename", "INFO", <<>>)>>]

\* text pd.read_excel reads as NaN (its default na_values), among it
NaStrings == {<<>>, T_nan, T_NaN, T_None, <<"N", "A">>, <<"n", "u", "l", "l">>}

\* pd.read_excel(io.BytesIO(file_data), engine='openpyxl') on the sheet's cells
read_excel(rows) ==
    [i \in 1..Len(rows) |->
        [c \in DOMAIN rows[i] |->
            IF rows[i][c].k = "str" /\ rows[i][c].s \in NaStrings THEN NaN ELSE rows[i][c]]]

(***************************************************************************)
(* The Excel -> records transformation.                                    *)
(* A workbook is [corrupt, cols, rows]: whether pd.read_excel raises on    *)
(* it, its set of headers, and its rows as functions header -> cell.       *)
(***************************************************************************)
\* df.dropna(how="all")
DropNaAll(rows) == SelectSeq(rows, LAMBDA r : \E c \in DOMAIN r : ~IsNa(r[c]))

\* a check that stops at the first required header it misses
missing_columns_first(p, cols) ==
    LET phys == [i \in 1..Len(required_fields(p)) |->
                    MapGet(excel_mapping(p), required_fields(p)[i], "")]
        all == SelectSeq(phys, LAMBDA h : h # "" /\ h \notin cols)
    IN  IF all = <<>> THEN <<>> ELSE << all[1] >>

\* the physical headers of the required fields that the workbook lacks, in order
missing_columns(p, cols) ==
    LET phys == [i \in 1..Len(required_fields(p)) |->
                    MapGet(excel_mapping(p), required_fields(p)[i], "")]
    IN  SelectSeq(phys, LAMBDA h : h # "" /\ h \notin cols)

\* the result of one transformation: the records, the log lines, how it ended,
\* the valid rows it kept and the aggregates it computed
XformResult(rows, diag, outcome, valid, aggregates) ==
    [rows |-> rows, diag |-> diag, outcome |-> outcome, valid |-> valid,
     aggregates |-> aggregates]

\* app.py: the primary-key check of STEP 1
po_row_valid(row) ==
    LET product_num == RowGet(row, MapGet(excel_mapping("PO"), "product_number", ""), NaN)
    IN  ~(IsNa(product_num) \/ Strip(PyStr(product_num)) \in {<<>>, T_nan, T_NaN, T_NAN})

\* app.py STEP 2: total = 0, then for each row in order total += v, where
\* v = pd.to_numeric(row.get(col, 0), errors='coerce') and NaN is skipped
RECURSIVE po_sum(_, _, _)
po_sum(total, rows, col) ==
    IF rows = <<>> THEN total
    ELSE LET v == ToNumeric(RowGet(rows[1], col, Num(0)))
         IN  po_sum(IF IsNa(v) THEN total ELSE AddNum(total, v), Tail(rows), col)

\* a total that leaves out the first row
po_total_tail(rows, col) == po_sum(Num(0), Tail(rows), col)

po_total(rows, col) == po_sum(Num(0), rows, col)

\* str(row.get(excel_mapping.get(field, ''), '')).strip()
row_field(p, row, field) ==
    Str(Strip(PyStr(RowGet(row, MapGet(excel_mapping(p), field, ""), Str(<<>>)))))

\* app.py STEP 3: the record of one valid row
po_row_dict(row, po_info, total_items, total_quantity, total_amount, name) ==
    [po_number |-> Str(po_info.po_number),
      po_date |-> Str(po_info.po_date),
      product_number |-> row_field("PO", row, "product_number"),
      product_name |-> row_field("PO", row, "product_name"),
      quantity_ordered |-> row_field("PO", row, "quantity_ordered"),
      price_per_unit |-> row_field("PO", row, "price_per_unit"),
      mrp |-> row_field("PO", row, "mrp"),
      base_price |-> row_field("PO", row, "base_price"),
      amount_per_line_amount |-> row_field("PO", row, "amount_per_line_amount"),
      total_items_in_po |-> Num(total_items),
      total_quantity_in_po |-> total_quantity,
      total_amount_of_po |-> total_amount,
      source_file |-> Str(name) ]

\* InstamartAutomation.process_excel_file
process_excel_file(file_data, name) ==
    LET po_info == extract_po_from_filename(name)
        df == DropNaAll(read_excel(file_data.rows))
        missing == missing_columns("PO", file_data.cols)
        valid_rows == SelectSeq(df, po_row_valid)
        total_items == Len(valid_rows)
        total_quantity == po_total(valid_rows, MapGet(excel_mapping("PO"), "quantity_ordered", ""))
        total_amount == po_total(valid_rows, MapGet(excel_mapping("PO"), "amount_per_line_amount", ""))
    IN  IF file_data.corrupt
        THEN XformResult(<<>>, po_info.diag \o <<LogEntry("ERROR_process", "ERROR", <<>>)>>,
                         "exception", <<>>, <<>>)
        ELSE IF missing # <<>>
        THEN XformResult(<<>>, po_info.diag \o <<LogEntry("ERROR_missing_columns", "ERROR", missing)>>,
                         "fatal", <<>>, <<>>)
        ELSE IF valid_rows = <<>>
        THEN XformResult(<<>>, po_info.diag \o <<LogEntry("WARNING_no_valid", "INFO", <<>>)>>,
                         "empty", <<>>, <<>>)
        ELSE XformResult(
                 [i \in 1..Len(valid_rows) |->
                     po_row_dict(valid_rows[i], po_info, total_items, total_quantity,
                                 total_amount, name)],
                 po_info.diag \o <<LogEntry("SUCCESS", "INFO", <<>>)>>,
                 "records", valid_rows,
                 << [key |-> name, count |-> total_items,
                     sum_quantity |-> total_quantity, sum_amount |-> total_amount] >>)

\* pd.read_excel(..., dtype=str): every non-blank cell is a str
read_excel_str(rows) ==
    LET df == read_excel(rows)
    IN  [i \in 1..Len(df) |->
            [c \in DOMAIN df[i] |->
                IF df[i][c].k \in {"num", "flt"} THEN Str(PyStr(df[i][c])) ELSE df[i][c]]]

\* df.replace({'nan': '', 'NaN': '', 'None': ''})
replace_null_tokens(rows) ==
    [i \in 1..Len(rows) |->
        [c \in DOMAIN rows[i] |->
            IF rows[i][c].k = "str" /\ rows[i][c].s \in {T_nan, T_NaN, T_None}
            THEN Str(<<>>) ELSE rows[i][c]]]

\* grn.py: the two filters on the item code column
grn_row_valid(row) ==
    LET item == row[excel_mapping("GRN")["item_code"]]
    IN  ~IsNa(item) /\ Strip(PyStr(item)) \notin {<<>>, T_nan}

\* grn.py: the record of one row
grn_row_dict(row, received_date, name) ==
    [grn_number |-> Str(Strip(PyStr(RowGet(row, excel_mapping("GRN")["po_number"], Str(<<>>))))),
      received_date |-> Str(received_date),
      item_code |-> row_field("GRN", row, "item_code"),
      product_upc |-> row_field("GRN", row, "product_upc"),
      product_description |-> row_field("GRN", row, "product_description"),
      mrp |-> row_field("GRN", row, "mrp"),
      tax_amount |-> row_field("GRN", row, "tax_amount"),
      landing_rate_po |-> row_field("GRN", row, "landing_rate_po"),
      landing_rate_grn |-> row_field("GRN", row, "landing_rate_grn"),
      quantity_po |-> row_field("GRN", row, "quantity_po"),
      quantity_grn |-> row_field("GRN", row, "quantity_grn"),
      fill_rate |-> row_field("GRN", row, "fill_rate"),
      total_grn_amount |-> row_field("GRN", row, "total_grn_amount"),
      gmv_loss |-> row_field("GRN", row, "gmv_loss"),
      source_file |-> Str(name) ]

\* GRNAutomation.process_grn_excel_file, called on day d
process_grn_excel_file(file_data, name, d) ==
    LET received == extract_date_from_filename(name, d)
        df == replace_null_tokens(DropNaAll(read_excel_str(file_data.rows)))
        missing == missing_columns("GRN", file_data.cols)
        valid_rows == SelectSeq(df, grn_row_valid)
    IN  IF file_data.corrupt
        THEN XformResult(<<>>, received.diag \o <<LogEntry("ERROR_process", "ERROR", <<>>)>>,
                         "exception", <<>>, <<>>)
        ELSE IF missing # <<>>
        THEN XformResult(<<>>, received.diag \o <<LogEntry("ERROR_missing_columns", "ERROR", missing)>>,
                         "fatal", <<>>, <<>>)
        ELSE IF valid_rows = <<>>
        THEN XformResult(<<>>, received.diag \o <<LogEntry("WARNING_no_valid", "INFO", <<>>)>>,
                         "empty", <<>>, <<>>)
        ELSE XformResult(
                 [i \in 1..Len(valid_rows) |-> grn_row_dict(valid_rows[i], received.date, name)],
                 received.diag \o <<LogEntry("SUCCESS", "INFO", <<>>)>>,
                 "records", valid_rows, <<>>)

\* the transformation of pipeline p
Transform(p, file_data, name, d) ==
    IF p = "PO" THEN process_excel_file(file_data, name)
    ELSE process_grn_excel_file(file_data, name, d)

(***************************************************************************)
(* The Google Sheet as the code reads and writes it: a sequence of rows,   *)
(* each a sequence of texts (values().get returns formatted strings).      *)
(***************************************************************************)
Range(f) == {f[i] : i \in DOMAIN f}

\* the value a cell of the request body has when read back
Entered(v) == IF v.k \in {"num", "flt"} THEN PyStr(v) ELSE v.s

\* get_existing_source_files, given the rows values().get returned
get_existing_source_files(values) ==
    IF values = <<>> THEN {}
    ELSE IF T_source_file \notin Range(values[1]) THEN {}
    ELSE LET headers == values[1]
             name_index == CHOOSE i \in 1..Len(headers) :
                               headers[i] = T_source_file
                               /\ \A j \in 1..(i - 1) : headers[j] # T_source_file
         IN  {values[k][name_index] : k \in {j \in 2..Len(values) :
                  Len(values[j]) >= name_index /\ values[j][name_index] # <<>>}}

\* a sheet that refuses rows whose last cell (source_file) it already holds
sheet_append_unique(values, rows) ==
    values \o SelectSeq(rows, LAMBDA row :
                  \A k \in 1..Len(values) : values[k][Len(values[k])] # row[Len(row)])

\* values().append(..., insertDataOption='INSERT_ROWS')
sheet_append(values, rows) == values \o rows

\* values().update(range="<sheet>!A1", body={'values': [headers]})
sheet_update_a1(values, headers) ==
    [values EXCEPT ![1] = headers \o SubSeq(@, Len(headers) + 1, Len(@))]

\* a set-up that appends the headers whenever row 1 does not hold them
setup_headers_append(values, headers) ==
    IF values = <<>> \/ values[1] # headers THEN "hdr_append" ELSE "loop"

\* setup_headers after its read succeeded: what it goes on to do
setup_headers_action(values, headers) ==
    LET existing_headers == IF values # <<>> THEN values[1] ELSE <<>>
    IN  IF existing_headers = <<>> THEN "hdr_append"
        ELSE IF existing_headers # headers THEN "hdr_update"
        ELSE "loop"

\* setup_headers with every call succeeding: the sheet it leaves
setup_headers(values, headers) ==
    LET action == setup_headers_action(values, headers)
    IN  IF action = "hdr_append" THEN sheet_append(values, <<headers>>)
        ELSE IF action = "hdr_update" THEN sheet_update_a1(values, headers)
        ELSE values

(***************************************************************************)
(* process_drive_to_sheet_workflow: its pure steps.                        *)
(***************************************************************************)
\* skip_existing as run_scheduled_workflow passes it
skip_existing == TRUE

\* grn.py: [f for f in excel_files if 'Consolidated-GRN-Report' in f['name']]
name_filter(p, files) ==
    IF p = "GRN" THEN SelectSeq(files, LAMBDA f : Contains(T_GRNReport, f.name))
    ELSE files

\* a gate that keeps one file per name: the first of the listing
dedup_gate_first(files, existing) ==
    SelectSeq(files, LAMBDA f :
        /\ f.name \notin existing
        /\ LET first == CHOOSE i \in 1..Len(files) :
                            /\ files[i].name = f.name
                            /\ \A j \in 1..(i - 1) : files[j].name # f.name
           IN  files[first] = f)

\* [f for f in excel_files if f['name'] not in existing_files]
dedup_gate(files, existing) == SelectSeq(files, LAMBDA f : f.name \notin existing)

\* a limit that keeps the last max_files files
limit_files_tail(files, max_files) ==
    IF max_files # 0 /\ Len(files) > max_files
    THEN SubSeq(files, Len(files) - max_files + 1, Len(files)) ELSE files

\* excel_files[:max_files] when max_files is set and exceeded
limit_files(files, max_files) ==
    IF max_files # 0 /\ Len(files) > max_files THEN SubSeq(files, 1, max_files) ELSE files

\* sheet rows in the reverse order of the records
sheet_rows_reversed(p, rows_data) ==
    [i \in 1..Len(rows_data) |->
        [j \in 1..Len(output_columns(p)) |->
            Entered(MapGet(rows_data[Len(rows_data) + 1 - i], output_columns(p)[j], Str(<<>>)))]]

\* [[row_dict.get(col, "") for col in output_columns] for row_dict in rows_data]
sheet_rows_of(p, rows_data) ==
    [i \in 1..Len(rows_data) |->
        [j \in 1..Len(output_columns(p)) |->
            Entered(MapGet(rows_data[i], output_columns(p)[j], Str(<<>>)))]]

\* the stats dictionary at the start of a run
InitStats == [total_files |-> 0, processed_files |-> 0, failed_files |-> 0,
              skipped_files |-> 0, rows_added |-> 0]

NoResult == XformResult(<<>>, <<>>, "none", <<>>, <<>>)

(***************************************************************************)
(* process_mail_to_drive_workflow: its pure steps.                         *)
(***************************************************************************)
\* the stats dictionary at the start of a Mail to Drive run
InitMailStats == [processed |-> 0, failed |-> 0, skipped |-> 0, total_attachments |-> 0]

\* the position of the dot os.path.splitext splits at (0: no extension)
ExtDot(filename) ==
    LET dots == {i \in 2..Len(filename) :
                    filename[i] = "." /\ \E j \in 1..(i - 1) : filename[j] # "."}
    IN  IF dots = {} THEN 0 ELSE CHOOSE i \in dots : \A j \in dots : j <= i

\* the name the attachment gets in Drive: app.py keeps attachment['filename'],
\* grn.py builds f"{name_no_ext}_{timestamp}{ext}"
target_filename(p, original_filename, timestamp) ==
    IF p = "PO" THEN original_filename
    ELSE LET i == ExtDot(original_filename)
             name_no_ext == IF i = 0 THEN original_filename
                            ELSE SubSeq(original_filename, 1, i - 1)
             ext == IF i = 0 THEN <<>>
                    ELSE SubSeq(original_filename, i, Len(original_filename))
         IN  name_no_ext \o <<"_">> \o timestamp \o ext

\* file_exists_in_drive: a failed query answers False
file_exists_in_drive(files, filename, ok) ==
    ok /\ \E i \in 1..Len(files) : files[i].name = filename

\* datetime.now().strftime('%Y%m%d_%H%M%S') on day d of the model's clock
NowStamp(d) ==
    <<"2", "0", "2", "6", "1", "1">> \o TwoDigits(2 + d)
        \o <<"_", "1", "2", "0", "0", "0", "0">>

(***************************************************************************)
(* Inputs: workbooks and Drive files.                                      *)
(***************************************************************************)
\* the physical headers the modelled workbooks may carry
KeyCol(p) == "Item Code"
NameCol(p) == "Product Description"
QtyCol(p) == IF p = "PO" THEN "Quantity" ELSE "Quantity - GRN"
AmtCol(p) == IF p = "PO" THEN "Total Amount" ELSE "Total GRN Amount"
GrpCol == "po_number"
ColsAll(p) == {KeyCol(p), NameCol(p), QtyCol(p), AmtCol(p)} \cup (IF p = "GRN" THEN {GrpCol} ELSE {})

\* a row over the headers cols
MkRow(p, cols, key, grp, qty, amt) ==
    [c \in cols |->
        CASE c = KeyCol(p) -> key
          [] c = NameCol(p) -> Str(<<"x">>)
          [] c = QtyCol(p) -> qty
          [] c = AmtCol(p) -> amt
          [] OTHER -> grp]

Workbook(cols, rows) == [corrupt |-> FALSE, cols |-> cols, rows |-> rows]
CorruptWorkbook == [corrupt |-> TRUE, cols |-> {}, rows |-> <<>>]

\* all sequences over S of length at most n
SeqsUpTo(S, n) == UNION {[1..k -> S] : k \in 0..n}

\* the header sets of the generated workbooks that lack a required header
ColChoices(p) ==
    {ColsAll(p) \ {KeyCol(p)}, ColsAll(p) \ {NameCol(p)},
     ColsAll(p) \ {KeyCol(p), NameCol(p)}}
    \cup (IF p = "GRN" THEN {ColsAll(p) \ {GrpCol}} ELSE {})

\* the header sets that lack optional headers only
OptionalColChoices(p) ==
    {ColsAll(p), ColsAll(p) \ {QtyCol(p)}, ColsAll(p) \ {QtyCol(p), AmtCol(p)}}

\* the cells the generated workbooks draw from: key cells, group cells, and
\* the quantity and the amount of a row, drawn together
KeyCells == {NaN, Str(<<"I", "1">>), Str(<<" ">>)}
GrpCells(p) == IF p = "GRN" THEN {Str(<<"A">>), Str(<<"B">>)} ELSE {Str(<<"A">>)}
QtyCells(p) ==
    IF p = "PO" THEN { <<Num(1), Flt(1)>>, <<Num(2), Flt(8)>> } ELSE { <<Num(1), Num(5)>> }

GenRows(p, cols) ==
    {MkRow(p, cols, key, grp, qa[1], qa[2]) :
        key \in KeyCells, grp \in GrpCells(p), qa \in QtyCells(p)}

\* rows with a valid key whose quantity and amount cells hold blanks, text
\* that is no number, digits as text, and numbers
NoisyQty == {NaN, Str(<<"1", ",", "2">>), Str(<<"1", "2">>), Num(3)}
NoisyAmt == {Flt(1), Str(<<"x">>)}
NoisyRows(p, cols) ==
    {MkRow(p, cols, Str(<<"I", "1">>), Str(<<"A">>), qty, amt) :
        qty \in NoisyQty, amt \in NoisyAmt}

\* the spellings of the key cell of a one-row workbook
KeyCellsWide ==
    {Str(T_nan), Str(T_NAN), Str(<<"N", "a", "n">>), Str(<<" ", "n", "a", "n", " ">>),
     Str(T_None), Str(<<"n", "o", "n", "e">>), Str(<<" ", "I", "1", " ">>), Num(7), Flt(7)}
KeyRows(p) ==
    {MkRow(p, ColsAll(p), key, Str(<<"A">>), Num(1), Num(5)) : key \in KeyCellsWide}

\* the generated workbooks: up to MaxRows rows under all headers; at most one
\* row under headers that lack a required one; up to MaxRows - 1 rows of
\* noisy numbers, with or without the optional headers; one row per key spelling
GenWorkbooks(p) ==
    {Workbook(ColsAll(p), rows) : rows \in SeqsUpTo(GenRows(p, ColsAll(p)), MaxRows)}
    \cup UNION {{Workbook(cols, rows) : rows \in SeqsUpTo(GenRows(p, cols), 1)} :
                  cols \in ColChoices(p)}
    \cup UNION {{Workbook(cols, rows) : rows \in SeqsUpTo(NoisyRows(p, cols), MaxRows - 1)} :
                  cols \in OptionalColChoices(p)}
    \cup {Workbook(ColsAll(p), << row >>) : row \in KeyRows(p)}

\* the fixed workbooks of the Drive folder
GoodA(p) ==
    Workbook(ColsAll(p),
        << MkRow(p, ColsAll(p), Str(<<"I", "1">>), Str(<<"A">>), Num(1), Num(10)),
           MkRow(p, ColsAll(p), Str(<<"I", "2">>), Str(<<"A">>), Num(2), Num(20)),
           MkRow(p, ColsAll(p), Str(<<"I", "3">>), Str(<<"B">>), Num(3), Num(30)) >>)
GoodB(p) ==
    Workbook(ColsAll(p),
        << MkRow(p, ColsAll(p), Str(<<"I", "4">>), Str(<<"C">>), Num(4), Num(40)) >>)
MissingCols(p) ==
    Workbook(ColsAll(p) \ {KeyCol(p), NameCol(p)},
        << MkRow(p, ColsAll(p) \ {KeyCol(p), NameCol(p)}, NaN, Str(<<"A">>), Num(1), Num(10)) >>)
NoValidRows(p) ==
    Workbook(ColsAll(p),
        << MkRow(p, ColsAll(p), NaN, Str(<<"A">>), Num(1), Num(10)),
           MkRow(p, ColsAll(p), Str(T_nan), Str(<<"B">>), Num(2), Num(20)) >>)

\* file names: <prefix><k>_20260211_030533.xlsx, and one without any pattern
T_stamp == <<"_", "2", "0", "2", "6", "0", "2", "1", "1", "_", "0", "3", "0", "5", "3", "3">>
T_debit == <<"D", "e", "b", "i", "t", "-", "N", "o", "t", "e">>
StampedName(p, k) ==
    (IF p = "PO" THEN <<"P", "O">> ELSE T_GRNReport) \o NumToText(k) \o T_stamp \o T_xlsx

\* the Drive files the folder may hold, by id; files 1 and 3 share a name
\* file 6 is no workbook at all and carries another kind of name
FileIds == {1, 2, 3, 4, 5, 6}
DriveFile(p, id) ==
    [id |-> id,
     name |-> CASE id = 3 -> StampedName(p, 1)
                [] id = 6 -> T_debit \o T_xlsx
                [] OTHER -> StampedName(p, id)]
DriveContent(p, id) ==
    CASE id = 1 -> GoodA(p)
      [] id \in {2, 3} -> GoodB(p)
      [] id = 4 -> MissingCols(p)
      [] id = 5 -> NoValidRows(p)
      [] OTHER -> CorruptWorkbook

\* the listings of at most n distinct files
Listings(p, n) ==
    {[i \in 1..Len(q) |-> DriveFile(p, q[i])] :
        q \in {x \in SeqsUpTo(FileIds, n) : \A i, j \in 1..Len(x) : i # j => x[i] # x[j]}}

\* CONFIG['sheet']['max_files'], and a limit small enough to cut a listing
MaxFilesConfig == 500
MaxFilesChoices == {1, MaxFilesConfig}

(***************************************************************************)
(* State.                                                                  *)
(***************************************************************************)
VARIABLES
    pipeline,   \* "PO" (app.py) or "GRN" (grn.py)
    serial,     \* TRUE when runs are serialized externally
    nruns,      \* the runs this behaviour may start
    max_files,  \* config['max_files'] (0: not set)
    track,      \* TRUE when the behaviour records the history entered
    drive,      \* list_excel_files' answer: the folder's files (id, name), newest first
    content,    \* the bytes download_excel_file gets for a file id
    sheet,      \* the rows of the target sheet
    run,        \* per process: the locals of its call of process_drive_to_sheet_workflow
    started,    \* the number of runs started so far
    appended,   \* history: the batches appended to the sheet (run, file, first row, rows)
    faulty,     \* history: some collaborator call failed or some exception was caught
    entered,    \* history: <<file id, run>> for every transformation of a file
    mail        \* the mailbox and the locals of process_mail_to_drive_workflow

vars == <<pipeline, serial, nruns, max_files, track, drive, content, sheet, run, started,
          appended, faulty, entered, mail>>
\* what process_drive_to_sheet_workflow leaves alone
env == <<pipeline, serial, nruns, max_files, track, drive, content, mail>>

\* the processes that may run the workflow; serialized runs all use process 1
Runs == {1, 2}

\* the locals of a run that has not started
IdleRun ==
    [pc |-> "idle", no |-> 0, existing_files |-> {}, listed |-> <<>>, gated |-> <<>>,
     excel_files |-> <<>>, stats |-> InitStats, idx |-> 1, sheet_rows |-> <<>>,
     docstate |-> [i \in {} |-> ""], attempted |-> <<>>, transformed |-> <<>>,
     last |-> [id |-> 0, name |-> <<>>, res |-> NoResult], setup |-> "none",
     cut_before |-> <<>>]

\* a sheet somebody prepared with other headers
LegacyHeaders == << T_source_file >>

\* the Mail to Drive workflow before its first call; pc "off": the behaviour
\* calls process_drive_to_sheet_workflow alone
IdleMail ==
    [pc |-> "idle", no |-> 0, box |-> <<>>, messages |-> <<>>, mi |-> 1,
     attachments |-> <<>>, ai |-> 1, timestamp |-> <<>>, stats |-> InitMailStats,
     log |-> <<>>]
NoMail == [IdleMail EXCEPT !.pc = "off"]

InitCommon ==
    /\ pipeline \in Pipelines
    /\ run = [r \in Runs |-> IdleRun]
    /\ started = 0
    /\ appended = <<>>
    /\ faulty = FALSE
    /\ entered = {}

\* serialized runs over a fixed Drive folder
Init ==
    /\ InitCommon
    /\ mail = NoMail
    /\ serial = TRUE
    /\ track = FALSE
    /\ nruns = MaxRuns
    /\ max_files \in MaxFilesChoices
    /\ drive \in Listings(pipeline, MaxDrive)
    /\ content = [id \in {drive[i].id : i \in 1..Len(drive)} |-> DriveContent(pipeline, id)]
    /\ sheet \in {<<>>, <<LegacyHeaders>>}

(***************************************************************************)
(* process_drive_to_sheet_workflow, one action per collaborator call and   *)
(* the code that follows it.                                               *)
(***************************************************************************)
\* a loop that returns the stats after its first file
AdvanceStop(rec) == [rec EXCEPT !.idx = @ + 1, !.pc = "done"]

\* the for loop moves on to the next file, or the run returns its stats
Advance(rec) ==
    [rec EXCEPT !.idx = @ + 1,
                !.pc = IF rec.idx + 1 > Len(rec.excel_files) THEN "done" ELSE "loop"]

\* a failure that counts the file and breaks out of the loop
FailedAbort(rec) ==
    [rec EXCEPT !.stats.failed_files = @ + 1, !.excel_files = SubSeq(@, 1, rec.idx)]

\* a failure that is not counted
FailedUncounted(rec) == rec

\* a failure that is counted twice
FailedTwice(rec) == [rec EXCEPT !.stats.failed_files = @ + 2]

\* stats['failed_files'] += 1 (and continue)
Failed(rec) == [rec EXCEPT !.stats.failed_files = @ + 1]

\* the state of a document after its transformation
OutcomeState(outcome) ==
    CASE outcome = "fatal" -> "fatal"
      [] outcome = "empty" -> "empty"
      [] outcome = "records" -> "records-produced"
      [] OTHER -> "error"

\* the documents excel_files[:max_files] cut off in the run
CutOff(rec) == SubSeq(rec.gated, Len(rec.excel_files) + 1, Len(rec.gated))

\* a process calls the workflow (again, once its last call has returned);
\* serialized runs are the calls of process 1, one after the other
StartRun(r) ==
    /\ started < nruns
    /\ run[r].pc \in {"idle", "done"}
    /\ serial => r = 1
    /\ mail.pc = "off" \/ (mail.pc = "done" /\ mail.no = started + 1)
    /\ started' = started + 1
    /\ run' = [run EXCEPT ![r] =
                  [IdleRun EXCEPT !.pc = "snapshot", !.no = started + 1,
                                  !.cut_before = IF track THEN CutOff(run[r]) ELSE <<>>]]
    /\ UNCHANGED <<env, sheet, appended, faulty, entered>>

\* existing_files = self.get_existing_source_files(...); a failed read gives set()
Snapshot(r) ==
    /\ run[r].pc = "snapshot"
    /\ \E ok \in BOOLEAN :
          /\ run' = [run EXCEPT ![r].existing_files =
                                    IF skip_existing /\ ok
                                    THEN get_existing_source_files(sheet) ELSE {},
                                ![r].pc = "list"]
          /\ faulty' = (faulty \/ ~ok)
    /\ UNCHANGED <<env, sheet, started, appended, entered>>

\* list_excel_files (a failed call gives []), the name filter, the dedup gate,
\* the max_files limit and the early return
ListFiles(r) ==
    /\ run[r].pc = "list"
    /\ \E ok \in BOOLEAN :
          LET files == IF ok THEN drive ELSE <<>>
              listed == name_filter(pipeline, files)
              gated == IF skip_existing THEN dedup_gate(listed, run[r].existing_files)
                       ELSE listed
              limited == limit_files(gated, max_files)
          IN  /\ faulty' = (faulty \/ ~ok)
              /\ run' = [run EXCEPT ![r] =
                  [@ EXCEPT !.listed = listed,
                            !.gated = gated,
                            !.excel_files = limited,
                            !.stats = [@ EXCEPT !.total_files = Len(listed),
                                                !.skipped_files = Len(listed) - Len(gated)],
                            !.docstate = [id \in {listed[i].id : i \in 1..Len(listed)} |->
                                             IF \E i \in 1..Len(gated) : gated[i].id = id
                                             THEN "candidate" ELSE "filtered-out"],
                            !.pc = IF limited = <<>> THEN "done" ELSE "headers"]]
    /\ UNCHANGED <<env, sheet, started, appended, entered>>

\* a workflow that goes on into the loop when setup_headers returned False
SetupHeadersReadOn(r) ==
    /\ run[r].pc = "headers"
    /\ \E ok \in BOOLEAN :
          LET next == IF ok THEN setup_headers_action(sheet, display_headers(pipeline))
                      ELSE "loop"
          IN  /\ run' = [run EXCEPT ![r].pc = next,
                                    ![r].setup = IF ~ok THEN "failed"
                                                 ELSE IF next = "loop" THEN "ok" ELSE @]
              /\ faulty' = (faulty \/ ~ok)
    /\ UNCHANGED <<env, sheet, started, appended, entered>>

\* setup_headers: the read of row 1 and the choice of what to write
SetupHeadersRead(r) ==
    /\ run[r].pc = "headers"
    /\ \E ok \in BOOLEAN :
          LET next == IF ok THEN setup_headers_action(sheet, display_headers(pipeline))
                      ELSE "done"
          IN  /\ run' = [run EXCEPT ![r].pc = next,
                                    ![r].setup = IF next = "loop" THEN "ok"
                                                 ELSE IF next = "done" THEN "failed" ELSE @]
              /\ faulty' = (faulty \/ ~ok)
    /\ UNCHANGED <<env, sheet, started, appended, entered>>

\* setup_headers: the append or the update of the header row
SetupHeadersWrite(r) ==
    /\ run[r].pc \in {"hdr_append", "hdr_update"}
    /\ \E ok \in BOOLEAN :
          /\ sheet' = IF ~ok THEN sheet
                      ELSE IF run[r].pc = "hdr_append"
                      THEN sheet_append(sheet, <<display_headers(pipeline)>>)
                      ELSE sheet_update_a1(sheet, display_headers(pipeline))
          /\ run' = [run EXCEPT ![r].pc = IF ok THEN "loop" ELSE "done",
                                ![r].setup = IF ok THEN "ok" ELSE "failed"]
          /\ faulty' = (faulty \/ ~ok)
    /\ UNCHANGED <<env, started, appended, entered>>

\* the days datetime.now() may show when a transformation reads the clock
Days == 0..MaxDay

\* one iteration of the for loop up to the append: the download fails or the
\* loop's handler catches an exception; or the file is downloaded, transformed
\* and converted to sheet rows
ProcessFile(r) ==
    /\ run[r].pc = "loop"
    /\ LET rec == run[r]
           file == rec.excel_files[rec.idx]
           tried == [rec EXCEPT !.attempted = Append(@, file)]
       IN  \/ \E how \in {"download-failed", "error"} :
                 /\ run' = [run EXCEPT ![r] =
                               Advance(Failed([tried EXCEPT !.docstate[file.id] = how]))]
                 /\ faulty' = TRUE
                 /\ UNCHANGED entered
           \/ \E today \in Days :
                 LET res == Transform(pipeline, content[file.id], file.name, today)
                     done == [tried EXCEPT
                                 !.transformed = Append(@, file),
                                 !.last = [id |-> file.id, name |-> file.name, res |-> res],
                                 !.docstate[file.id] = OutcomeState(res.outcome)]
                 IN  /\ run' = [run EXCEPT ![r] =
                            IF res.rows = <<>> THEN Advance(Failed(done))
                            ELSE [done EXCEPT !.sheet_rows = sheet_rows_of(pipeline, res.rows),
                                              !.pc = "append"]]
                     /\ entered' = IF track THEN entered \cup {<<file.id, rec.no>>} ELSE entered
                     /\ UNCHANGED faulty
    /\ UNCHANGED <<env, sheet, started, appended>>

\* append_to_sheet of the file's rows and the counters that follow it
AppendRows(r) ==
    /\ run[r].pc = "append"
    /\ \E ok \in BOOLEAN :
          LET rec == run[r]
              file == rec.excel_files[rec.idx]
              cleared == [rec EXCEPT !.sheet_rows = <<>>]
          IN  IF ok
              THEN /\ sheet' = sheet_append(sheet, rec.sheet_rows)
                   /\ appended' = Append(appended, [run |-> rec.no, id |-> file.id,
                                                    name |-> file.name,
                                                    first |-> Len(sheet) + 1,
                                                    n |-> Len(rec.sheet_rows)])
                   /\ run' = [run EXCEPT ![r] =
                          Advance([cleared EXCEPT !.stats.rows_added = @ + Len(rec.sheet_rows),
                                                  !.stats.processed_files = @ + 1])]
                   /\ UNCHANGED faulty
              ELSE /\ run' = [run EXCEPT ![r] = Advance(Failed(cleared))]
                   /\ faulty' = TRUE
                   /\ UNCHANGED <<sheet, appended>>
    /\ UNCHANGED <<env, started, entered>>

(***************************************************************************)
(* process_mail_to_drive_workflow, as run_scheduled_workflow calls it       *)
(* before process_drive_to_sheet_workflow.                                 *)
(***************************************************************************)
\* the loop over the messages moves on, or the workflow returns its stats
NextMessage(m) ==
    [m EXCEPT !.mi = @ + 1, !.attachments = <<>>, !.ai = 1, !.timestamp = <<>>,
              !.pc = IF m.mi + 1 > Len(m.messages) THEN "done" ELSE "message"]

\* the loop over the attachments moves on, or the loop over the messages does
NextAttachment(m) ==
    IF m.ai + 1 > Len(m.attachments) THEN NextMessage(m) ELSE [m EXCEPT !.ai = @ + 1]

\* stats[counter] += 1 for a message or an attachment; the log keeps what
\* happened to it
MailCount(m, counter, event, name) ==
    [m EXCEPT !.stats[counter] = @ + 1,
              !.log = Append(@, [run |-> m.no, event |-> event, name |-> name])]

\* run_scheduled_workflow calls process_mail_to_drive_workflow
MailStart ==
    /\ mail.pc \in {"idle", "done"}
    /\ started < nruns
    /\ mail.no = started
    /\ run[1].pc \in {"idle", "done"}
    /\ mail' = [mail EXCEPT !.pc = "search", !.no = @ + 1, !.stats = InitMailStats,
                            !.messages = <<>>, !.mi = 1, !.attachments = <<>>, !.ai = 1,
                            !.timestamp = <<>>, !.log = <<>>]
    /\ UNCHANGED <<pipeline, serial, nruns, max_files, track, drive, content, sheet, run,
                   started, appended, faulty, entered>>

\* search_emails (a failed call gives []) and the early return; an exception
\* before the loop is caught by the outer handler, which returns the stats
MailSearch ==
    /\ mail.pc = "search"
    /\ \E ok \in BOOLEAN :
          LET messages == IF ok THEN mail.box ELSE <<>>
          IN  /\ mail' = [mail EXCEPT !.messages = messages,
                                      !.pc = IF messages = <<>> THEN "done" ELSE "message"]
              /\ faulty' = (faulty \/ ~ok)
    /\ UNCHANGED <<pipeline, serial, nruns, max_files, track, drive, content, sheet, run,
                   started, appended, entered>>

\* one message: get_email_details, get_attachments (a failed call gives []),
\* the skip of a message without attachments, the timestamp of grn.py, and the
\* handler that counts an exception raised for the message
MailMessage ==
    /\ mail.pc = "message"
    /\ \E how \in {"ok", "no-attachments", "error"} : \E today \in Days :
          LET message == mail.messages[mail.mi]
              attachments == IF how = "ok" THEN message.attachments ELSE <<>>
          IN  /\ mail' =
                    IF how = "error"
                    THEN NextMessage(MailCount(mail, "failed", "error", <<>>))
                    ELSE IF attachments = <<>>
                    THEN NextMessage(MailCount(mail, "skipped", "no-attachments", <<>>))
                    ELSE [mail EXCEPT !.attachments = attachments, !.ai = 1,
                                      !.timestamp = IF pipeline = "PO" THEN <<>>
                                                    ELSE IF message.date # <<>>
                                                    THEN message.date
                                                    ELSE NowStamp(today),
                                      !.pc = "attachment"]
              /\ faulty' = (faulty \/ how # "ok")
    /\ UNCHANGED <<pipeline, serial, nruns, max_files, track, drive, content, sheet, run,
                   started, appended, entered>>

\* one attachment: file_exists_in_drive, download_attachment, upload_to_drive
\* and the counters; the handler counts an exception raised for the attachment
MailAttachment ==
    /\ mail.pc = "attachment"
    /\ \E exists_ok \in BOOLEAN :
       \E how \in {"ok", "download-failed", "upload-failed", "error"} :
          LET attachment == mail.attachments[mail.ai]
              filename == target_filename(pipeline, attachment.filename, mail.timestamp)
              file_id == 7 + Len(drive)
          IN  /\ faulty' = (faulty \/ ~exists_ok \/ how # "ok")
              /\ IF how = "error"
                 THEN /\ mail' = NextAttachment(MailCount(mail, "failed", "error", filename))
                      /\ UNCHANGED <<drive, content>>
                 ELSE IF file_exists_in_drive(drive, filename, exists_ok)
                 THEN /\ mail' = NextAttachment(MailCount(mail, "skipped", "exists", filename))
                      /\ UNCHANGED <<drive, content>>
                 ELSE IF how # "ok"
                 THEN /\ mail' = NextAttachment(MailCount(mail, "failed", how, filename))
                      /\ UNCHANGED <<drive, content>>
                 ELSE /\ mail' = NextAttachment(
                                     [MailCount(mail, "processed", "uploaded", filename)
                                         EXCEPT !.stats.total_attachments = @ + 1])
                      /\ drive' = << [id |-> file_id, name |-> filename] >> \o drive
                      /\ content' = [id \in DOMAIN content \cup {file_id} |->
                                        IF id = file_id THEN attachment.data ELSE content[id]]
    /\ UNCHANGED <<pipeline, serial, nruns, max_files, track, sheet, run, started, appended,
                   entered>>

Next ==
    \/ \E r \in Runs : StartRun(r)
    \/ \E r \in Runs : Snapshot(r)
    \/ \E r \in Runs : ListFiles(r)
    \/ \E r \in Runs : SetupHeadersRead(r)
    \/ \E r \in Runs : SetupHeadersWrite(r)
    \/ \E r \in Runs : ProcessFile(r)
    \/ \E r \in Runs : AppendRows(r)

Spec == Init /\ [][Next]_vars

(***************************************************************************)
(* One run over one generated workbook: the transformation on bounded      *)
(* inputs, inside the workflow that calls it.                              *)
(***************************************************************************)
\* names with the time stamp, and names without any date in them
GenNames(p) ==
    {StampedName(p, 1),
     (IF p = "PO" THEN <<"f", "1">> ELSE T_GRNReport) \o T_xlsx}

InitT ==
    /\ InitCommon
    /\ mail = NoMail
    /\ serial = TRUE
    /\ track = FALSE
    /\ nruns = 1
    /\ max_files = MaxFilesConfig
    /\ \E name \in GenNames(pipeline) : drive = << [id |-> 1, name |-> name] >>
    /\ \E wb \in GenWorkbooks(pipeline) \cup {CorruptWorkbook} : content = [id \in {1} |-> wb]
    /\ sheet = <<>>

SpecT == InitT /\ [][Next]_vars

(***************************************************************************)
(* Two processes run the workflow against the same sheet at the same time. *)
(***************************************************************************)
InitConc ==
    /\ InitCommon
    /\ mail = NoMail
    /\ serial = FALSE
    /\ track = FALSE
    /\ nruns = 2
    /\ max_files = MaxFilesConfig
    /\ drive \in Listings(pipeline, 1)
    /\ content = [id \in {drive[i].id : i \in 1..Len(drive)} |-> DriveContent(pipeline, id)]
    /\ sheet \in {<<>>, <<LegacyHeaders>>}

SpecConc == InitConc /\ [][Next]_vars

(***************************************************************************)
(* Serialized runs over a small folder, with the history of the            *)
(* transformations.                                                        *)
(***************************************************************************)
\* a sheet that holds a document's row under a header row other than the
\* configured one: the PO sheet with its last header set to source_file, the
\* GRN sheet with source_file as its only column
PriorSheet(p) ==
    IF p = "PO"
    THEN << [j \in 1..Len(display_headers(p)) |->
                IF j = Len(display_headers(p)) THEN T_source_file ELSE display_headers(p)[j]],
            [j \in 1..Len(display_headers(p)) |->
                IF j = Len(display_headers(p)) THEN StampedName(p, 2) ELSE <<"x">>] >>
    ELSE << LegacyHeaders, << StampedName(p, 2) >> >>

\* one file of the catalogue, the two files that share a name, or two files
\* with different names
InitRerun ==
    /\ InitCommon
    /\ mail = NoMail
    /\ serial = TRUE
    /\ track = TRUE
    /\ nruns = MaxRuns
    /\ max_files \in MaxFilesChoices
    /\ drive \in Listings(pipeline, 1) \cup {<< DriveFile(pipeline, 1), DriveFile(pipeline, 3) >>,
                                              << DriveFile(pipeline, 1), DriveFile(pipeline, 2) >>}
    /\ content = [id \in {drive[i].id : i \in 1..Len(drive)} |-> DriveContent(pipeline, id)]
    /\ sheet \in {<<>>, PriorSheet(pipeline)}

SpecRerun == InitRerun /\ [][Next]_vars

(***************************************************************************)
(* run_scheduled_workflow: Mail to Drive, then Drive to Sheet.              *)
(***************************************************************************)
\* the attachments a message may carry: two names, one of them twice
Attachment(p, k) ==
    [filename |-> IF p = "PO" THEN StampedName(p, k)
                  ELSE T_GRNReport \o NumToText(k) \o T_xlsx,
     data |-> IF k = 1 THEN GoodB(p) ELSE MissingCols(p)]
AttachmentLists(p) ==
    {<<>>, << Attachment(p, 1) >>, << Attachment(p, 1), Attachment(p, 2) >>,
     << Attachment(p, 1), Attachment(p, 1) >>}

\* the Date header of a message as '%Y%m%d_%H%M%S'; <<>>: a header that does not parse
MessageDate == SubSeq(T_stamp, 2, Len(T_stamp))
Messages(p) ==
    {[attachments |-> a, date |-> MessageDate] : a \in AttachmentLists(p)}
    \cup {[attachments |-> << Attachment(p, 1) >>, date |-> <<>>]}

\* the mailboxes search_emails may find: no message, one message, or a
\* message followed by one with a single attachment
Mailboxes(p) ==
    {<<>>} \cup {<< m >> : m \in Messages(p)}
    \cup {<< m, [attachments |-> << Attachment(p, 1) >>, date |-> MessageDate] >> :
             m \in Messages(p)}

InitSched ==
    /\ InitCommon
    /\ serial = TRUE
    /\ track = FALSE
    /\ nruns = 1
    /\ max_files = MaxFilesConfig
    /\ drive \in {<<>>, << DriveFile(pipeline, 1) >>}
    /\ content = [id \in {drive[i].id : i \in 1..Len(drive)} |-> DriveContent(pipeline, id)]
    /\ sheet = <<>>
    /\ \E box \in Mailboxes(pipeline) : mail = [IdleMail EXCEPT !.box = box]

NextSched ==
    \/ MailStart
    \/ MailSearch
    \/ MailMessage
    \/ MailAttachment
    \/ Next

SpecSched == InitSched /\ [][NextSched]_vars

\* every call returns: the steps of a workflow that was called are taken
SpecSchedFair == SpecSched /\ WF_vars(NextSched)

(***************************************************************************)
(* One run over one workbook under each of a range of file names.          *)
(***************************************************************************)
T_date8 == SubSeq(T_stamp, 2, 9)
T_time6 == SubSeq(T_stamp, 11, 16)

\* file names with and without the pattern identifier_date_time.extension
NameChoices(p) ==
    IF p = "PO"
    THEN {StampedName(p, 1),
          <<"5", "6", "3", "0", "3", "1", "0", "0", "0", "4", "4", "5", "1">>
              \o T_stamp \o T_xlsx,
          <<"P", "O", "1">> \o T_stamp \o T_xls,
          <<"P", "O", "1">> \o T_stamp \o <<".", "c", "s", "v">>,
          <<"P", "O", "1">> \o T_stamp \o <<".", "X", "L", "S", "X">>,
          <<"P", "O", "1">> \o T_stamp \o <<"_", "c", "o", "p", "y">> \o T_xlsx,
          <<"P", "O", "1", "_", "A", "B", "C", "D", "E", "F", "G", "H", "_">>
              \o T_time6 \o T_xlsx,
          <<"P", "O", "1", "_">> \o SubSeq(T_date8, 1, 7) \o <<"_">> \o T_time6 \o T_xlsx,
          <<"P", "O">> \o T_date8 \o T_xlsx,
          <<"f", "1">> \o T_xlsx}
    ELSE {StampedName(p, 1),
          T_GRNReport \o T_stamp \o <<".", "X", "L", "S">>,
          T_GRNReport \o T_date8 \o T_xlsx,
          T_GRNReport \o <<"7">> \o T_stamp \o <<"_", "v", "2">> \o T_xlsx,
          T_GRNReport \o T_xlsx}

InitNames ==
    /\ InitCommon
    /\ mail = NoMail
    /\ serial = TRUE
    /\ track = FALSE
    /\ nruns = 1
    /\ max_files = MaxFilesConfig
    /\ \E name \in NameChoices(pipeline) : drive = << [id |-> 2, name |-> name] >>
    /\ content = [id \in {2} |-> DriveContent(pipeline, 2)]
    /\ sheet = <<>>

SpecNames == InitNames /\ [][Next]_vars

\* attachment names the GRN mail search may meet: the report name alone or
\* followed by digits of its own, with an Excel extension, another one or none
OriginalStems ==
    {T_GRNReport,
     T_GRNReport \o <<"-", "2", "0", "2", "5", "0", "1", "0", "1">>,
     T_GRNReport \o <<"_", "2", "0", "2", "5", "0", "1", "0", "1", "_",
                      "0", "0", "0", "0", "0", "0">>,
     T_GRNReport \o <<"-", "4", "2">>}
OriginalExts == {T_xlsx, T_xls, <<".", "X", "L", "S", "X">>, <<".", "c", "s", "v">>, <<>>}

\* Date headers as '%Y%m%d_%H%M%S', and <<>> for one that does not parse
StampChoices ==
    {MessageDate,
     <<"2", "0", "2", "5", "1", "2", "3", "1", "_", "2", "3", "5", "9", "5", "9">>,
     <<>>}

\* one scheduled GRN run over a mailbox with one message and one attachment
InitStamp ==
    /\ InitCommon
    /\ pipeline = "GRN"
    /\ serial = TRUE
    /\ track = FALSE
    /\ nruns = 1
    /\ max_files = MaxFilesConfig
    /\ drive = <<>>
    /\ content = [id \in {} |-> GoodB(pipeline)]
    /\ sheet = <<>>
    /\ \E stem \in OriginalStems : \E ext \in OriginalExts : \E date \in StampChoices :
          mail = [IdleMail EXCEPT !.box =
                     << [attachments |-> << [filename |-> stem \o ext,
                                             data |-> GoodB(pipeline)] >>,
                         date |-> date] >>]

SpecStamp == InitStamp /\ [][NextSched]_vars

(***************************************************************************)
(* Properties of the dedup gate and of repeated runs.                      *)
(***************************************************************************)
\* the runs whose listing, gate and limit have been computed
Listed(r) == run[r].pc \notin {"idle", "snapshot", "list"}

\* the positions of a listing the gate has to keep
KeptPositions(files, existing) == {i \in 1..Len(files) : files[i].name \notin existing}

\* C1: with serialized runs, every call succeeding and no max_files cut, a run
\* after the first appends nothing, and the sheet holds each document's
\* records exactly once
C1_SecondRunAppendsNothing ==
    (serial /\ ~faulty /\ max_files = MaxFilesConfig) =>
        /\ \A k \in 1..Len(appended) : appended[k].run = 1
        /\ \A k, m \in 1..Len(appended) : appended[k].id = appended[m].id => k = m

\* C2: a document enters the transformation at most once, in one run and
\* over the runs, and the records carrying one source_file value are
\* appended by at most one transformation
C2_AtMostOnce ==
    /\ \A e, g \in entered : e[1] = g[1] => e = g
    /\ \A k, m \in 1..Len(appended) : appended[k].name = appended[m].name => k = m

\* C3: with serialized runs, whatever the snapshot read gave, a run downloads,
\* transforms or appends no document whose name is the source_file of rows
\* that earlier runs put into the sheet
C3_GateSound ==
    serial =>
        \A r \in Runs : \A i \in 1..Len(run[r].attempted) :
            \A k \in 1..Len(appended) :
                appended[k].run < run[r].no => appended[k].name # run[r].attempted[i].name

\* C4: the gate keeps exactly the listed documents whose name is not in the
\* snapshot, in the listing's order and one for one, and skipped_files is
\* the number of documents it removed; before it the snapshot, after it the
\* max_files limit
C4_GateFilter ==
    \A r \in Runs :
        Listed(r) =>
            LET L == run[r].listed
                G == run[r].gated
                K == KeptPositions(L, run[r].existing_files)
            IN  /\ Len(G) = Cardinality(K)
                /\ \A i \in K : G[Cardinality({j \in K : j <= i})] = L[i]
                /\ run[r].stats.skipped_files = Cardinality((1..Len(L)) \ K)
                /\ run[r].stats.total_files = Len(L)
                /\ run[r].excel_files = limit_files(G, max_files)

\* a run whose snapshot holds the first listed name: the gate removed the
\* first document and kept the second
C4_Witness ==
    \E r \in Runs :
        /\ Listed(r)
        /\ Len(run[r].listed) = 2
        /\ run[r].listed[1].name \in run[r].existing_files
        /\ run[r].gated = << run[r].listed[2] >>
        /\ run[r].stats.skipped_files = 1

(***************************************************************************)
(* Properties of concurrent runs.                                          *)
(***************************************************************************)
\* the position of source_file in the output schema
SourceFileIdx ==
    CHOOSE j \in 1..Len(output_columns(pipeline)) : output_columns(pipeline)[j] = "source_file"

\* the rows of the sheet whose source_file cell holds name
RowsNamed(name) ==
    {k \in 1..Len(sheet) : Len(sheet[k]) >= SourceFileIdx /\ sheet[k][SourceFileIdx] = name}

\* both processes have run the workflow once, with no failed call, and neither
\* snapshot held the name of file f, which both listed
Raced(f) ==
    /\ ~serial
    /\ ~faulty
    /\ \A r \in Runs :
          /\ run[r].pc = "done"
          /\ f.name \notin run[r].existing_files
          /\ \E i \in 1..Len(run[r].listed) : run[r].listed[i] = f

\* C5: when two concurrent runs both read their snapshot before either appends
\* a valid document, both keep it and both append it: nothing at the append
\* stops the second batch and the sheet holds the document's records twice
C5_RaceDuplicates ==
    \A i \in 1..Len(drive) :
        LET f == drive[i]
            res == Transform(pipeline, content[f.id], f.name, 0)
        IN  (Raced(f) /\ res.outcome = "records") =>
                /\ Len(appended) = 2
                /\ appended[1].id = f.id /\ appended[2].id = f.id
                /\ appended[1].run # appended[2].run
                /\ Cardinality(RowsNamed(f.name)) = 2 * Len(res.rows)

\* the GRN pipeline after the race: two batches of the same file by two runs
C5_Witness ==
    /\ pipeline = "GRN"
    /\ Len(drive) = 1
    /\ Raced(drive[1])
    /\ Len(appended) = 2
    /\ appended[1].run # appended[2].run
    /\ Cardinality(RowsNamed(drive[1].name)) = 2 * appended[1].n
    /\ appended[1].n > 0

(***************************************************************************)
(* Properties of the loop over the batch.                                  *)
(***************************************************************************)
\* the batch of a run: what the gate kept, cut to max_files
Batch(r) == limit_files(run[r].gated, max_files)

\* C6: a failing document never aborts the batch: whatever happened to the
\* documents before it, every document of the batch gets its turn in the
\* same run (its download is tried, and it is transformed when the download
\* succeeds), and every document that had its turn is counted once
C6_BatchContinues ==
    \A r \in Runs :
        /\ run[r].pc = "loop" => run[r].attempted = SubSeq(Batch(r), 1, run[r].idx - 1)
                                 /\ run[r].idx <= Len(Batch(r))
        /\ run[r].pc = "append" => run[r].attempted = SubSeq(Batch(r), 1, run[r].idx)
        /\ (run[r].pc = "done" /\ run[r].setup = "ok") => run[r].attempted = Batch(r)
        /\ run[r].pc \in {"loop", "done"} =>
              run[r].stats.processed_files + run[r].stats.failed_files = Len(run[r].attempted)
        /\ \A i \in 1..Len(run[r].attempted) :
              run[r].docstate[run[r].attempted[i].id] \notin {"download-failed", "error"}
                  => \E j \in 1..Len(run[r].transformed) :
                        run[r].transformed[j] = run[r].attempted[i]

\* a finished run whose first document failed and whose second document was
\* transformed and appended
C6_Witness ==
    \E r \in Runs :
        /\ run[r].pc = "done"
        /\ Len(run[r].attempted) = 2
        /\ run[r].docstate[run[r].attempted[1].id] \in {"download-failed", "error", "fatal", "empty"}
        /\ run[r].docstate[run[r].attempted[2].id] = "records-produced"
        /\ run[r].stats.failed_files = 1
        /\ run[r].stats.processed_files = 1

\* C7: at the end of a run every discovered document is in one of the four
\* states filtered-out, fatal, empty, records-produced
C7_FourTerminalStates ==
    \A r \in Runs :
        run[r].pc = "done" =>
            \A id \in DOMAIN run[r].docstate :
                run[r].docstate[id] \in {"filtered-out", "fatal", "empty", "records-produced"}

\* the states of a document: the four above, a failed download, a caught
\* exception, and candidate
DocStates ==
    {"filtered-out", "candidate", "fatal", "empty", "records-produced", "download-failed", "error"}

C7_StateInv ==
    \A r \in Runs : \A id \in DOMAIN run[r].docstate :
        /\ run[r].docstate[id] \in DocStates
        /\ run[r].docstate[id] = "filtered-out" <=>
              \A i \in 1..Len(run[r].gated) : run[r].gated[i].id # id
        /\ (run[r].pc = "done" /\ run[r].docstate[id] = "candidate") =>
              \/ \A i \in 1..Len(run[r].excel_files) : run[r].excel_files[i].id # id
              \/ run[r].setup = "failed"

C7_Step ==
    \A r \in Runs : \A id \in DOMAIN run[r].docstate :
        (run[r].no = run'[r].no /\ run[r].docstate[id] # "candidate") =>
            /\ id \in DOMAIN run'[r].docstate
            /\ run'[r].docstate[id] = run[r].docstate[id]

\* C7 (amended): every discovered document is filtered-out or candidate; a
\* candidate becomes fatal, empty, records-produced, download-failed or error
\* when it has its turn and never changes again within the run; at the end
\* of a run the documents still candidate are those cut off by max_files or
\* left behind by a failed header set-up
C7_DocumentStates == []C7_StateInv /\ [][C7_Step]_vars

\* a finished run with a document whose download failed and a document the
\* max_files limit left candidate
C7_Witness ==
    \E r \in Runs :
        /\ run[r].pc = "done"
        /\ run[r].setup = "ok"
        /\ \E a, b \in DOMAIN run[r].docstate :
              /\ run[r].docstate[a] = "download-failed"
              /\ run[r].docstate[b] = "candidate"

(***************************************************************************)
(* Properties of the transformation of one document.                       *)
(***************************************************************************)
\* the physical headers of required fields that a workbook lacks
MissingRequired(p, cols) ==
    {excel_mapping(p)[required_fields(p)[i]] : i \in 1..Len(required_fields(p))} \ cols

\* the primary-key check of pipeline p on a row as the pipeline reads it
KeyPasses(p, row) ==
    IF p = "PO" THEN po_row_valid(read_excel(<< row >>)[1])
    ELSE grn_row_valid(replace_null_tokens(read_excel_str(<< row >>))[1])

\* the number of valid rows of a workbook with all required headers
ValidCount(p, wb) == Cardinality({i \in 1..Len(wb.rows) : KeyPasses(p, wb.rows[i])})

\* the runs that have transformed a document
Transformed(r) == run[r].last.id # 0

\* C8: a workbook lacking the header of a required field gives no record, the
\* error entry names every missing header, and nothing of it reaches the
\* sheet; in general the records are one per valid row or none at all, and
\* so are the rows appended for the document
C8_MissingColumnFatal ==
    \A r \in Runs :
        Transformed(r) =>
            LET wb == content[run[r].last.id]
                res == run[r].last.res
                M == MissingRequired(pipeline, wb.cols)
            IN  /\ (~wb.corrupt /\ M # {}) =>
                      /\ res.rows = <<>>
                      /\ \E k \in 1..Len(res.diag) :
                            /\ res.diag[k].tag = "ERROR_missing_columns"
                            /\ res.diag[k].level = "ERROR"
                            /\ Range(res.diag[k].cols) = M
                            /\ Len(res.diag[k].cols) = Cardinality(M)
                      /\ run[r].sheet_rows = <<>>
                      /\ appended = <<>>
                      /\ RowsNamed(run[r].last.name) = {}
                /\ res.rows # <<>> =>
                      /\ ~wb.corrupt /\ M = {}
                      /\ Len(res.rows) = ValidCount(pipeline, wb)
                /\ \A k \in 1..Len(appended) :
                      /\ appended[k].n = ValidCount(pipeline, wb)
                      /\ Cardinality(RowsNamed(run[r].last.name)) = appended[k].n

\* a finished run over a workbook with rows that lacks two required headers
C8_Witness ==
    \E r \in Runs :
        /\ Transformed(r)
        /\ run[r].pc = "done"
        /\ Cardinality(MissingRequired(pipeline, content[run[r].last.id].cols)) = 2
        /\ content[run[r].last.id].rows # <<>>
        /\ run[r].last.res.rows = <<>>
        /\ Len(sheet) = 1

\* C9: a workbook with all required headers and no valid row gives no record
\* and no aggregate, records a warning, is not a fatal outcome and is not
\* counted with the failed documents
C9_EmptyIsSoft ==
    \A r \in Runs :
        Transformed(r) =>
            LET wb == content[run[r].last.id]
                res == run[r].last.res
            IN  (/\ ~wb.corrupt
                 /\ MissingRequired(pipeline, wb.cols) = {}
                 /\ ValidCount(pipeline, wb) = 0) =>
                    /\ res.rows = <<>>
                    /\ res.aggregates = <<>>
                    /\ \E k \in 1..Len(res.diag) : res.diag[k].tag = "WARNING_no_valid"
                    /\ res.outcome # "fatal"
                    /\ run[r].stats.failed_files = 0

\* C10: in the GRN pipeline there is one aggregate per distinct po_number of
\* the valid rows, and its count is the number of records of that group
C10_KeyedAggregation ==
    \A r \in Runs :
        (Transformed(r) /\ pipeline = "GRN" /\ run[r].last.res.outcome = "records") =>
            LET res == run[r].last.res
                keys == {res.rows[i].grn_number : i \in 1..Len(res.rows)}
            IN  /\ Len(res.aggregates) = Cardinality(keys)
                /\ \A i \in 1..Len(res.rows) :
                      \E j \in 1..Len(res.aggregates) :
                          /\ res.aggregates[j].key = res.rows[i].grn_number
                          /\ res.aggregates[j].count =
                                Cardinality({m \in 1..Len(res.rows) :
                                                res.rows[m].grn_number = res.rows[i].grn_number})

(***************************************************************************)
(* Properties of the totals of the PO pipeline.                            *)
(***************************************************************************)
\* a PO run whose last transformation gave records
PoRecords(r) ==
    Transformed(r) /\ pipeline = "PO" /\ run[r].last.res.outcome = "records"

\* the whole number a cell of a total column stands for: the number itself,
\* the value of digits as text, and 0 for a blank, other text or no cell
CellValue(row, col) ==
    IF col \notin DOMAIN row THEN 0
    ELSE CASE row[col].k \in {"num", "flt"} -> row[col].n
           [] row[col].k = "str" /\ row[col].s # <<>> /\ AllDigits(row[col].s) ->
                  TextToNum(row[col].s)
           [] OTHER -> 0

\* the exact sum of a column over rows
RECURSIVE ExactSum(_, _)
ExactSum(rows, col) ==
    IF rows = <<>> THEN 0 ELSE CellValue(rows[1], col) + ExactSum(Tail(rows), col)

\* no cell of the column is a float
NoFloat(rows, col) ==
    \A i \in 1..Len(rows) : col \in DOMAIN rows[i] => rows[i][col].k # "flt"

\* the rearrangements of a sequence
Permuted(rows) ==
    {[i \in 1..Len(rows) |-> rows[f[i]]] :
        f \in {g \in [1..Len(rows) -> 1..Len(rows)] :
                  \A i, j \in 1..Len(rows) : g[i] = g[j] => i = j}}

\* the physical headers of the two columns that are summed
QuantityHeader == excel_mapping_po["quantity_ordered"]
AmountHeader == excel_mapping_po["amount_per_line_amount"]

\* every record of the document carries the same three totals, and
\* total_items_in_po is the number of valid rows
C11_SameTotals(r) ==
    LET res == run[r].last.res
    IN  \A i \in 1..Len(res.rows) :
           /\ res.rows[i].total_items_in_po = Num(ValidCount("PO", content[run[r].last.id]))
           /\ res.rows[i].total_quantity_in_po = res.rows[1].total_quantity_in_po
           /\ res.rows[i].total_amount_of_po = res.rows[1].total_amount_of_po

C12_NoisyNumbers ==
    \A r \in Runs :
        LET wb == content[run[r].last.id]
            res == run[r].last.res
        IN  (/\ Transformed(r) /\ pipeline = "PO" /\ ~wb.corrupt
             /\ MissingRequired("PO", wb.cols) = {}
             /\ ValidCount("PO", wb) > 0) =>
                /\ res.outcome = "records"
                /\ Len(res.rows) = ValidCount("PO", wb)
                /\ res.rows[1].total_items_in_po = Num(ValidCount("PO", wb))
                /\ NoFloat(res.valid, QuantityHeader) =>
                      res.rows[1].total_quantity_in_po = Num(ExactSum(res.valid, QuantityHeader))
                /\ NoFloat(res.valid, AmountHeader) =>
                      res.rows[1].total_amount_of_po = Num(ExactSum(res.valid, AmountHeader))
                /\ QuantityHeader \notin wb.cols => res.rows[1].total_quantity_in_po = Num(0)
                /\ AmountHeader \notin wb.cols => res.rows[1].total_amount_of_po = Num(0)

\* a PO run over two rows: one with text in the quantity and in the amount
\* cell, one with the quantity 12 written as text
C12_Witness ==
    \E r \in Runs :
        /\ PoRecords(r)
        /\ Len(run[r].last.res.valid) = 2
        /\ {QuantityHeader, AmountHeader} \subseteq content[run[r].last.id].cols
        /\ run[r].last.res.valid[1][QuantityHeader] = Str(<<"1", ",", "2">>)
        /\ run[r].last.res.valid[1][AmountHeader] = Str(<<"x">>)
        /\ run[r].last.res.valid[2][QuantityHeader] = Str(<<"1", "2">>)
        /\ run[r].last.res.rows[1].total_quantity_in_po = Num(12)
        /\ run[r].last.res.rows[1].total_amount_of_po.n = 1

(***************************************************************************)
(* Properties of the rows a document gives.                                *)
(***************************************************************************)
\* the rows of a workbook as the pipeline holds them after reading
ReadRows(p, wb) ==
    IF p = "PO" THEN read_excel(wb.rows) ELSE replace_null_tokens(read_excel_str(wb.rows))

\* a readable workbook with all required headers was transformed
Parsed(r) ==
    /\ Transformed(r)
    /\ ~content[run[r].last.id].corrupt
    /\ MissingRequired(pipeline, content[run[r].last.id].cols) = {}

\* the key cell is present and, trimmed and in lower case, is neither empty
\* nor nan nor none
KeyPresent(cell) ==
    /\ ~IsNa(cell)
    /\ Lower(Strip(PyStr(cell))) \notin {<<>>, T_nan, <<"n", "o", "n", "e">>}

\* C13: the rows kept are exactly the rows whose key cell is present and,
\* trimmed, is neither empty nor a spelling of nan or none in any letter case
C13_RowValidity ==
    \A r \in Runs :
        Parsed(r) =>
            LET rows == ReadRows(pipeline, content[run[r].last.id])
            IN  run[r].last.res.valid =
                    SelectSeq(rows, LAMBDA row : KeyPresent(row[KeyCol(pipeline)]))

\* the positions of the valid rows of a workbook
ValidPositions(p, wb) == {i \in 1..Len(wb.rows) : KeyPasses(p, wb.rows[i])}

\* the field of a record that comes from the cell under header h
TextOf(row, h) == Str(Strip(PyStr(RowGet(row, h, Str(<<>>)))))

\* the record of pipeline p has the cells of the row
RecordOf(p, rec, row) ==
    IF p = "PO"
    THEN /\ rec.product_number = TextOf(row, "Item Code")
         /\ rec.quantity_ordered = TextOf(row, "Quantity")
         /\ rec.amount_per_line_amount = TextOf(row, "Total Amount")
    ELSE /\ rec.item_code = TextOf(row, "Item Code")
         /\ rec.grn_number = TextOf(row, "po_number")
         /\ rec.quantity_grn = TextOf(row, "Quantity - GRN")

\* C14: the valid rows are the rows passing the key check, in their order;
\* there is one record per valid row in that order, and the rows appended
\* for the document are those records in that order
C14_OrderAndCardinality ==
    \A r \in Runs :
        Parsed(r) =>
            LET wb == content[run[r].last.id]
                rows == ReadRows(pipeline, wb)
                res == run[r].last.res
                K == ValidPositions(pipeline, wb)
                rank(i) == Cardinality({j \in K : j <= i})
            IN  /\ Len(res.valid) = Cardinality(K)
                /\ Len(res.rows) = Cardinality(K)
                /\ \A i \in K : /\ res.valid[rank(i)] = rows[i]
                                /\ RecordOf(pipeline, res.rows[rank(i)], rows[i])
                /\ run[r].pc = "append" =>
                      run[r].sheet_rows =
                          [k \in 1..Len(res.rows) |->
                              [j \in 1..Len(output_columns(pipeline)) |->
                                  Entered(res.rows[k][output_columns(pipeline)[j]])]]
                /\ \A b \in 1..Len(appended) :
                      /\ appended[b].n = Len(res.rows)
                      /\ \A k \in 1..Len(res.rows) : \A j \in 1..Len(output_columns(pipeline)) :
                            sheet[appended[b].first + k - 1][j] =
                                Entered(res.rows[k][output_columns(pipeline)[j]])

\* a finished run over three rows, the second one invalid, whose two
\* different records were appended
C14_Witness ==
    \E r \in Runs :
        /\ Parsed(r)
        /\ run[r].pc = "done"
        /\ ValidPositions(pipeline, content[run[r].last.id]) = {1, 3}
        /\ Len(content[run[r].last.id].rows) = 3
        /\ run[r].last.res.rows[1] # run[r].last.res.rows[2]
        /\ Len(appended) = 1
        /\ Len(sheet) = 3

\* the fields of a record that are read from a cell of the row
RowFields(p) ==
    IF p = "PO"
    THEN {"product_number", "product_name", "quantity_ordered", "price_per_unit",
          "mrp", "base_price", "amount_per_line_amount"}
    ELSE {"item_code", "product_upc", "product_description", "mrp", "tax_amount",
          "landing_rate_po", "landing_rate_grn", "quantity_po", "quantity_grn",
          "fill_rate", "total_grn_amount", "gmv_loss"}

\* C15: every appended row has as many cells as the output schema; its
\* source_file cell is the file name; and a field whose column the workbook
\* lacks, or whose cell is blank in the row, is the empty string
C15_FixedSchema ==
    \A r \in Runs :
        Parsed(r) =>
            LET res == run[r].last.res
                cols == output_columns(pipeline)
            IN  \A b \in 1..Len(appended) : \A k \in 1..appended[b].n :
                    LET cells == sheet[appended[b].first + k - 1]
                    IN  /\ Len(cells) = Len(cols)
                        /\ cells[SourceFileIdx] = run[r].last.name
                        /\ \A j \in 1..Len(cols) :
                              (/\ cols[j] \in RowFields(pipeline)
                               /\ IsNa(RowGet(res.valid[k], excel_mapping(pipeline)[cols[j]], NaN)))
                                  => cells[j] = <<>>

(***************************************************************************)
(* Properties of the counters and of the sheet's header row.               *)
(***************************************************************************)
\* the documents run r appended
AppendedIds(r) == {appended[k].id : k \in {j \in 1..Len(appended) : appended[j].run = run[r].no}}

\* the documents that failed in run r: no download, an exception, a missing
\* column, no valid row, or rows whose append failed
FailedIds(r) ==
    {id \in DOMAIN run[r].docstate :
        \/ run[r].docstate[id] \in {"download-failed", "error", "fatal", "empty"}
        \/ /\ run[r].docstate[id] = "records-produced"
           /\ id \notin AppendedIds(r)
           /\ ~(run[r].pc = "append" /\ run[r].excel_files[run[r].idx].id = id)}

\* the entries of the Mail to Drive log with one of the events
MailLogged(events) == {k \in 1..Len(mail.log) : mail.log[k].event \in events}

\* the files in the Drive folder that an upload created
Uploaded == {i \in 1..Len(drive) : drive[i].id \notin FileIds}

\* the counters of both workflows count what happened
C16_Counters ==
    /\ \A r \in Runs :
          Listed(r) =>
              /\ run[r].stats.failed_files = Cardinality(FailedIds(r))
              /\ run[r].stats.processed_files = Cardinality(AppendedIds(r))
              /\ run[r].stats.skipped_files =
                     Cardinality({id \in DOMAIN run[r].docstate :
                                     run[r].docstate[id] = "filtered-out"})
    /\ mail.stats.failed =
           Cardinality(MailLogged({"download-failed", "upload-failed", "error"}))
    /\ mail.stats.skipped = Cardinality(MailLogged({"exists", "no-attachments"}))
    /\ mail.stats.processed = Cardinality(MailLogged({"uploaded"}))
    /\ mail.stats.processed = Cardinality(Uploaded)
    /\ mail.stats.total_attachments = mail.stats.processed

\* C16: whatever calls fail, both workflows return their stats to the caller,
\* and the stats count every failed document as failed, every document the
\* gate removed as skipped and every appended document as processed
C16_FailuresBecomeCounters ==
    /\ []C16_Counters
    /\ (mail.pc = "search") ~> (mail.pc = "done")
    /\ (run[1].pc = "snapshot") ~> (run[1].pc = "done")

\* a scheduled run with failed calls in both workflows: Mail to Drive
\* returned with a failed and a processed attachment, Drive to Sheet returned
\* with a failed and a processed document
C16_Witness ==
    /\ faulty
    /\ mail.pc = "done"
    /\ mail.stats.failed >= 1
    /\ mail.stats.processed >= 1
    /\ run[1].pc = "done"
    /\ run[1].stats.failed_files >= 1
    /\ run[1].stats.processed_files >= 1

\* the names of the batches a step appends
NewlyAppended == {appended'[k].name : k \in (Len(appended) + 1)..Len(appended')}

\* C17: the set get_existing_source_files reads from the sheet never loses an
\* element, whatever step is taken (the rewrite of row 1 included) and from
\* one serialized run to the next, and it grows only by the names of the
\* documents whose rows the step appended
C17_SetMonotone ==
    [][/\ get_existing_source_files(sheet) \subseteq get_existing_source_files(sheet')
       /\ (get_existing_source_files(sheet') \ get_existing_source_files(sheet))
              \subseteq NewlyAppended]_vars

\* on the sheet as it is, a second setup_headers changes nothing after the
\* first, and the first leaves one header row and the data rows as they were
C18_Twice ==
    LET headers == display_headers(pipeline)
        once == setup_headers(sheet, headers)
        twice == setup_headers(once, headers)
    IN  /\ twice = once
        /\ once[1] = headers
        /\ Cardinality({k \in 1..Len(once) : once[k] = headers}) = 1
        /\ Len(once) = IF sheet = <<>> THEN 1 ELSE Len(sheet)
        /\ \A k \in 2..Len(sheet) : once[k] = sheet[k]

\* C18: setup_headers called twice with the same headers, every call
\* succeeding, leaves the sheet as one call does: one header row, no data row
\* added or changed, from an empty sheet, from matching headers and from
\* other headers; and a run's successful set-up is that function of the sheet
C18_HeaderIdempotent ==
    /\ []C18_Twice
    /\ [][\A r \in Runs :
             (run[r].pc = "headers" /\ run'[r].pc = "loop") =>
                 sheet = setup_headers(sheet, display_headers(pipeline))]_vars
    /\ [][\A r \in Runs :
             (run[r].pc \in {"hdr_append", "hdr_update"} /\ run'[r].pc = "loop") =>
                 sheet' = setup_headers(sheet, display_headers(pipeline))]_vars

\* the second run's set-up succeeded on a sheet whose first row the first
\* run's set-up rewrote
C18_Witness ==
    /\ run[1].no = 2
    /\ run[1].setup = "ok"
    /\ Len(sheet) >= 2
    /\ sheet[1] = display_headers(pipeline)
    /\ sheet[2] = PriorSheet(pipeline)[2]

(***************************************************************************)
(* Properties of the transformation as a function, and of the file name    *)
(* extractors.                                                             *)
(***************************************************************************)
\* the file name gives the GRN extractor a date
NameHasDate(name) == DigitRuns(StripExcelExt(name)) # {}

IsAlnum(c) == IsDigit(c) \/ (\E i \in 1..26 : UpperChars[i] = c \/ LowerChars[i] = c)

\* name is ID_YYYYMMDD_HHMMSS followed by .ext or by further _segments and
\* .ext, with an ID of n letters and digits
FullPattern(name, n) ==
    /\ n >= 1
    /\ Len(name) >= n + 18
    /\ \A i \in 1..n : IsAlnum(name[i])
    /\ name[n + 1] = "_"
    /\ AllDigits(SubSeq(name, n + 2, n + 9))
    /\ name[n + 10] = "_"
    /\ AllDigits(SubSeq(name, n + 11, n + 16))
    /\ name[n + 17] \in {".", "_"}
    /\ \E k \in (n + 17)..(Len(name) - 1) :
          /\ name[k] = "."
          /\ \A i \in (k + 1)..Len(name) : IsAlnum(name[i])
          /\ \A i \in (n + 17)..(k - 1) : IsAlnum(name[i]) \/ name[i] = "_"

\* C20: for a file name ID_YYYYMMDD_HHMMSS.ext the PO extractor gives the
\* identifier ID and the date YYYY-MM-DD, whatever the extension and whatever
\* segments follow the second one, and the document's records carry them
C20_FullPattern ==
    \A r \in Runs :
        (Transformed(r) /\ pipeline = "PO") =>
            \A n \in 1..Len(run[r].last.name) :
                FullPattern(run[r].last.name, n) =>
                    LET name == run[r].last.name
                        po_info == extract_po_from_filename(name)
                        rows == run[r].last.res.rows
                    IN  /\ po_info.po_number = SubSeq(name, 1, n)
                        /\ po_info.po_date = DashDate(SubSeq(name, n + 2, n + 9))
                        /\ rows # <<>>
                        /\ \A k \in 1..Len(rows) :
                              /\ rows[k].po_number = Str(SubSeq(name, 1, n))
                              /\ rows[k].po_date = Str(DashDate(SubSeq(name, n + 2, n + 9)))

\* the records of a workbook whose name has a fourth segment carry the
\* identifier and the date of the first two
C20_Witness ==
    \E r \in Runs :
        /\ Transformed(r)
        /\ pipeline = "PO"
        /\ FullPattern(run[r].last.name, 3)
        /\ Len(Split(run[r].last.name, "_")) = 4
        /\ run[r].last.res.rows[1].po_number = Str(<<"P", "O", "1">>)
        /\ run[r].last.res.rows[1].po_date =
               Str(<<"2", "0", "2", "6", "-", "0", "2", "-", "1", "1">>)

\* the file name matches the full pattern of the pipeline's extractor
FullMatch(p, name) ==
    IF p = "PO" THEN \E n \in 1..Len(name) : FullPattern(name, n)
    ELSE HasStampSuffix(StripExcelExt(name))

\* the date a record carries from the file name
DateOf(p, rec) == IF p = "PO" THEN rec.po_date.s ELSE rec.received_date.s

\* the extractor logged a warning
Warned(res) == \E i \in 1..Len(res.diag) : res.diag[i].tag = "WARNING_filename"

\* C21: for a file name without the full pattern and without 8 digits in a
\* row the extractor gives today's date, never an empty one, and (PO) an
\* empty identifier, logs a warning, and the workbook still gives records
C21_NoPattern ==
    \A r \in Runs :
        (Transformed(r) /\ ~FullMatch(pipeline, run[r].last.name)
                        /\ DigitRuns(run[r].last.name) = {}) =>
            LET res == run[r].last.res
            IN  /\ res.rows # <<>>
                /\ Warned(res)
                /\ \A k \in 1..Len(res.rows) :
                      /\ \E d \in Days : DateOf(pipeline, res.rows[k]) = TodayText(d)
                      /\ pipeline = "PO" => res.rows[k].po_number = Str(<<>>)

\* the first run of 8 digits in a file name, as a date
FirstDate(name) ==
    LET i == CHOOSE j \in DigitRuns(name) : \A k \in DigitRuns(name) : j <= k
    IN  DashDate(SubSeq(name, i, i + 7))

\* C22: for a file name without the full pattern that holds 8 digits in a
\* row the extractor gives the date of those digits and (PO) an empty
\* identifier, and logs a warning for the fallback
C22_FallbackDigits ==
    \A r \in Runs :
        (Transformed(r) /\ ~FullMatch(pipeline, run[r].last.name)
                        /\ DigitRuns(run[r].last.name) # {}) =>
            LET res == run[r].last.res
            IN  /\ res.rows # <<>>
                /\ Warned(res)
                /\ \A k \in 1..Len(res.rows) :
                      /\ DateOf(pipeline, res.rows[k]) = FirstDate(run[r].last.name)
                      /\ pipeline = "PO" => res.rows[k].po_number = Str(<<>>)

\* C23: a second segment of 8 characters that are not all digits is no match:
\* the date of a record is never built from characters other than digits
C23_NonNumericDate ==
    \A r \in Runs :
        Transformed(r) =>
            \A k \in 1..Len(run[r].last.res.rows) :
                \A i \in 1..Len(DateOf(pipeline, run[r].last.res.rows[k])) :
                    LET c == DateOf(pipeline, run[r].last.res.rows[k])[i]
                    IN  IsDigit(c) \/ c = "-"

(***************************************************************************)
(* Properties of the snapshot, the counters, the header set-up and the     *)
(* max_files limit.                                                        *)
(***************************************************************************)
\* C24: in the PO pipeline, once the sheet's first row holds the configured
\* display headers and a document's rows were appended, the set
\* get_existing_source_files reads from the sheet holds the document's name
C24_SnapshotSeesAppended ==
    (pipeline = "PO" /\ sheet # <<>> /\ sheet[1] = display_headers(pipeline)) =>
        \A k \in 1..Len(appended) : appended[k].name \in get_existing_source_files(sheet)

\* the batches run r appended
BatchesOf(r) == {k \in 1..Len(appended) : appended[k].run = run[r].no}

\* the number of rows in the batches K
RECURSIVE RowsIn(_)
RowsIn(K) ==
    IF K = {} THEN 0
    ELSE LET k == CHOOSE j \in K : TRUE IN appended[k].n + RowsIn(K \ {k})

\* the run returned from the end of the loop (or from the early return of an
\* empty list) with no document cut off by max_files
CompleteRun(r) ==
    /\ run[r].pc = "done"
    /\ run[r].setup # "failed"
    /\ Len(run[r].excel_files) = Len(run[r].gated)

\* C25: processed + failed + skipped never exceeds total_files and equals it
\* when the run completes without a max_files cut; processed_files counts the
\* documents whose append succeeded, and rows_added the rows of those batches
C25_CounterAccounting ==
    \A r \in Runs :
        LET st == run[r].stats
        IN  /\ st.processed_files + st.failed_files + st.skipped_files <= st.total_files
            /\ CompleteRun(r) =>
                  st.processed_files + st.failed_files + st.skipped_files = st.total_files
            /\ st.processed_files = Cardinality(BatchesOf(r))
            /\ st.rows_added = RowsIn(BatchesOf(r))
            /\ \A k \in BatchesOf(r) :
                  /\ appended[k].n >= 1
                  /\ \A i \in 0..(appended[k].n - 1) :
                        sheet[appended[k].first + i][SourceFileIdx] = appended[k].name

\* a run over two documents that completed with one appended and one failed
C25_Witness ==
    \E r \in Runs :
        /\ CompleteRun(r)
        /\ run[r].stats.total_files = 2
        /\ run[r].stats.processed_files = 1
        /\ run[r].stats.failed_files = 1
        /\ run[r].stats.rows_added >= 1

\* the batches holding the rows of file f
BatchesWith(f) == {k \in 1..Len(appended) : appended[k].id = f.id}

\* C26: a listed document that no earlier serialized run appended (its
\* download or append failed, or it gave no rows) is kept by the run's gate;
\* and once a run has completed with every call so far succeeding and no
\* max_files cut, every listed document with its required columns and a valid
\* row has its records in the sheet exactly once
C26_FailedStayEligible ==
    \A r \in Runs :
        (serial /\ Listed(r)) =>
            \A i \in 1..Len(run[r].listed) :
                LET f == run[r].listed[i]
                IN  /\ (\A k \in BatchesWith(f) : appended[k].run >= run[r].no) =>
                           \E j \in 1..Len(run[r].gated) : run[r].gated[j] = f
                    /\ (/\ ~faulty
                        /\ CompleteRun(r)
                        /\ Transform(pipeline, content[f.id], f.name, 0).outcome = "records") =>
                           Cardinality(BatchesWith(f)) = 1

\* a run stopped by setup_headers has touched no document and counted none
C27_Stopped ==
    \A r \in Runs :
        run[r].setup = "failed" =>
            /\ run[r].pc = "done"
            /\ run[r].attempted = <<>>
            /\ run[r].transformed = <<>>
            /\ BatchesOf(r) = {}
            /\ run[r].stats.processed_files = 0
            /\ run[r].stats.failed_files = 0
            /\ run[r].stats.rows_added = 0
            /\ run[r].stats.total_files = Len(run[r].listed)
            /\ run[r].stats.skipped_files = Len(run[r].listed) - Len(run[r].gated)

\* C27: when setup_headers returns False the run returns without
\* downloading, transforming or appending a document: the step leaves the
\* sheet as it is, and the stats hold zero processed, failed and added rows
\* with total_files and skipped_files as the gate computed them
C27_HeaderFailureStops ==
    /\ []C27_Stopped
    /\ [][\A r \in Runs :
             (run[r].setup # "failed" /\ run'[r].setup = "failed") =>
                 /\ sheet' = sheet
                 /\ appended' = appended
                 /\ run'[r].stats = run[r].stats]_vars

\* a run that setup_headers stopped, on a sheet that holds data rows
C27_Witness ==
    \E r \in Runs :
        /\ run[r].setup = "failed"
        /\ run[r].pc = "done"
        /\ run[r].stats.total_files >= 1
        /\ Len(sheet) >= 2

\* the limit: at most max_files documents have their turn, they are the first
\* of the gated list in its order, and a document cut off is neither
\* appended nor counted
LimitHolds(r) ==
    LET G == run[r].gated
        E == run[r].excel_files
        A == run[r].attempted
        st == run[r].stats
    IN  /\ max_files # 0 => Len(A) <= max_files
        /\ E = SubSeq(G, 1, IF max_files # 0 /\ max_files < Len(G) THEN max_files ELSE Len(G))
        /\ Len(A) <= Len(E)
        /\ A = SubSeq(E, 1, Len(A))
        /\ \A i \in (Len(E) + 1)..Len(G) :
              /\ run[r].docstate[G[i].id] = "candidate"
              /\ \A k \in BatchesOf(r) : appended[k].id # G[i].id
        /\ st.processed_files + st.failed_files <= Len(E)
        /\ st.skipped_files = Len(run[r].listed) - Len(G)

DistinctNames == \A i, j \in 1..Len(drive) : drive[i].name = drive[j].name => i = j

\* every attachment examined and every message without attachments moved
\* exactly one of the three counters, and processed = total_attachments
MailAccounting ==
    /\ mail.stats.processed + mail.stats.failed + mail.stats.skipped = Len(mail.log)
    /\ mail.stats.processed = mail.stats.total_attachments

\* C29: in every state of a scheduled run the Drive folder holds no two files
\* with the same name, each attachment examined has incremented exactly one
\* of processed, failed and skipped, and processed = total_attachments
C29_UploadDedup == DistinctNames /\ MailAccounting

\* the timestamps the workflow may put into the names of a message's
\* attachments: the message's date, or the time of the run when it has none
TimestampsOf(message) ==
    IF message.date # <<>> THEN {message.date} ELSE {NowStamp(d) : d \in Days}

StemOf(name) == IF ExtDot(name) = 0 THEN name ELSE SubSeq(name, 1, ExtDot(name) - 1)
ExtOf(name) == IF ExtDot(name) = 0 THEN <<>> ELSE SubSeq(name, ExtDot(name), Len(name))

\* the date the name N_T E is mapped to: the date of T when E is .xlsx or
\* .xls in any case or empty, or when N holds no 8 digits in a row;
\* with another extension, the first 8 digits of N
RoundTripDate(original, T) ==
    IF \/ Lower(ExtOf(original)) \in {T_xlsx, T_xls, <<>>}
       \/ DigitRuns(StemOf(original)) = {}
    THEN DashDate(SubSeq(T, 1, 8))
    ELSE LET i == CHOOSE j \in DigitRuns(StemOf(original)) :
                      \A k \in DigitRuns(StemOf(original)) : j <= k
         IN  DashDate(SubSeq(StemOf(original), i, i + 7))

=============================================================================
